---- MODULE Spec2Model ----
(***************************************************************************)
(* A model of the review-analytics pipeline of Kaim-week2-fintech-reviews. *)
(*                                                                         *)
(* Python values.  A str is a sequence of one-character strings.  The two  *)
(* non-str values a DataFrame text cell can hold, NaN and None, are the    *)
(* one-element sequences NaN and None below (their element is no           *)
(* character, so they equal no str).                                       *)
(*                                                                         *)
(* Numbers.  Sentiment scores are counted in twentieths (0.5 is 10), and   *)
(* the lexicon polarity in tenths (0.1 is 1), so that (polarity + 1) / 2   *)
(* is polarity + 10 twentieths, exactly.                                   *)
(***************************************************************************)
EXTENDS Integers, Sequences, FiniteSets, TLC

VARIABLES
    \* ---- SentimentAnalyzer (src/nlp_analysis/sentiment_analyzer.py)
    env_model_loads,      \* did pipeline(...) succeed in __init__
    env_textblob_imports, \* is `from textblob import TextBlob` possible
    model_loaded,         \* self.model_loaded
    use_textblob,         \* self.use_textblob (absent when the model loaded: FALSE, never read then)
    sa_pc,                \* position of analyze_dataframe: "ready", "loop", "done", "raised"
    df_text,              \* df[text_column], the batch
    idx,                  \* 0-based index of the next text of the loop
    sentiments,           \* local list `sentiments`
    scores,               \* local list `scores`
    df_sentiment_label,   \* df['sentiment_label'] once attached
    df_sentiment_score,   \* df['sentiment_score'] once attached
    sa_calls,             \* history: per text, which external analyzer was invoked ("classifier", "textblob", "none")
    sa_outcome,           \* history: per text, how the external analyzer answered ("ok", "raise", "none")
    sa_used,              \* history: per text, the branch of lines 93-98 taken
    \* ---- ThemeAnalyzer.classify_review_themes as a function of its arguments
    cl_pc,                \* "call" before, "done" after the call
    cl_text,              \* argument text
    cl_threshold,         \* argument threshold, in tenths
    cl_themes,            \* the list returned
    \* ---- one ThemeAnalyzer object (src/nlp_analysis/theme_analyzer.py)
    theme_keywords,       \* self.theme_keywords
    vectorizer,           \* self.vectorizer: is it fitted, and its fitted vocabulary_
    th_pc,                \* the caller of the analyzer: "idle", or "returned" from a call
    th_call,              \* the last call: its name and arguments
    th_result,            \* what the last call returned
    \* ---- two extract_keywords_tfidf calls running in parallel on that object
    p_pc,                 \* per call: "fit", "read", "rank", "done"
    p_texts,              \* per call: the argument texts
    p_matrix,             \* per call: the local tfidf_matrix
    p_names,              \* per call: the local feature_names
    p_result,             \* per call: the list returned
    \* ---- one run of NLPAnalysisPipeline (src/nlp_analysis/main_pipeline.py);
    \* its SentimentAnalyzer is model_loaded/use_textblob, its ThemeAnalyzer
    \* theme_keywords/vectorizer above
    pl_pc,                \* position of run_complete_analysis and of main
    pl_file,              \* the input file: can it be read, and its rows
    pl_df,                \* the DataFrame of the run, column after column
    pl_theme_analysis,    \* the local theme_analysis
    pl_results,           \* self.results ({} is << >>)
    pl_written,           \* the output files written, by name
    pl_trace,             \* history: the stages of the run, in the order they happened
    \* ---- one InsightsAnalyzer (src/insights/analyzer.py)
    in_pc,                \* "start", "loaded" or "failed" after load_data, "reported" or "no_report" after the report
    in_file,              \* the analysis CSV at data_path: can it be read, and its rows
    in_df,                \* self.df, the rows read from the analysis CSV (None is << >>)
    in_report,            \* the report returned ({} is << >>)
    \* ---- TextPreprocessor called on one text (src/utils/text_preprocessor.py)
    tp_pc,                \* "call", "cleaned" after clean_text, "tokenized" after tokenize_text
    tp_text,              \* the argument of clean_text
    tp_processed,         \* what clean_text returned: the cell of processed_text
    tp_tokens,            \* what tokenize_text returned on tp_processed: the cell of tokens
    \* ---- one ReviewPreprocessor (src/data_collection/preprocessing.py)
    rp_pc,                \* position of process(): "start", then the stage done, "done" or "failed"
    rp_file,              \* the raw file at input_path: can it be read, and its rows
    rp_df,                \* self.df (None is << >>)
    rp_stats,             \* self.stats
    rp_saved,             \* the file at output_path: was it written, and its rows
    \* ---- one call of SentimentAnalyzer.analyze_sentiment_textblob
    fb_pc,                \* "ready" before the call, "returned" or "raised" after it
    fb_text,              \* the text it is called on
    fb_out,               \* what TextBlob(text).sentiment.polarity does on that text
    fb_result,            \* what the call returned (<< >> before it)
    \* ---- one DatabaseManager and its database (src/database/db_manager.py)
    db_pc,                \* "idle" between the calls, "returned" when a call is over
    db_conn,              \* self.conn: "none" (None), "open", or "closed" after disconnect()
    db_banks,             \* the bank names committed in the table banks
    db_reviews,           \* the rows committed in the table reviews, in order
    db_file,              \* the file at csv_path: can it be read, and its rows
    db_call,              \* the call under way or just over, with the rows stored before it
    db_result             \* how the call ended: returned a value, or raised

saVars == << env_model_loads, env_textblob_imports, model_loaded, use_textblob,
             sa_pc, df_text, idx, sentiments, scores, df_sentiment_label,
             df_sentiment_score, sa_calls, sa_outcome, sa_used >>

clVars == << cl_pc, cl_text, cl_threshold, cl_themes >>

taVars == << theme_keywords, vectorizer >>

thVars == << th_pc, th_call, th_result >>

parVars == << p_pc, p_texts, p_matrix, p_names, p_result >>

plVars == << pl_pc, pl_file, pl_df, pl_theme_analysis, pl_results, pl_written, pl_trace >>

inVars == << in_pc, in_file, in_df, in_report >>

tpVars == << tp_pc, tp_text, tp_processed, tp_tokens >>

\* the components that stand alone: no step of another component touches them
rpVars == << rp_pc, rp_file, rp_df, rp_stats, rp_saved >>

fbVars == << fb_pc, fb_text, fb_out, fb_result >>

dbVars == << db_pc, db_conn, db_banks, db_reviews, db_file, db_call, db_result >>

extVars == << tpVars, rpVars, fbVars, dbVars >>

vars == << saVars, clVars, taVars, thVars, parVars, plVars, inVars, extVars >>

\* what the steps of one component leave alone: the other components' state
saOthers == << clVars, taVars, thVars, parVars, plVars, inVars, extVars >>
clOthers == << saVars, taVars, thVars, parVars, plVars, inVars, extVars >>
thOthers == << saVars, clVars, parVars, plVars, inVars, extVars >>
parOthers == << saVars, clVars, thVars, plVars, inVars, extVars >>
plOthers == << saVars, clVars, thVars, parVars, inVars, extVars >>
inOthers == << saVars, clVars, taVars, thVars, parVars, plVars, extVars >>
tpOthers == << saVars, clVars, taVars, thVars, parVars, plVars, inVars, rpVars, fbVars, dbVars >>
rpOthers == << saVars, clVars, taVars, thVars, parVars, plVars, inVars, tpVars, fbVars, dbVars >>
fbOthers == << saVars, clVars, taVars, thVars, parVars, plVars, inVars, tpVars, rpVars, dbVars >>
dbOthers == << saVars, clVars, taVars, thVars, parVars, plVars, inVars, tpVars, rpVars, fbVars >>

----------------------------------------------------------------------------
(* Python values and str helpers *)

NaN == << "NaN" >>
None == << "None" >>

IsStr(v) == v # NaN /\ v # None

\* Python truthiness: `not v` is true of "" and None, false of NaN (a float)
\* and of every non-empty str.
PyNot(v) == v = << >> \/ v = None

\* str.isspace() of one character
Whitespace == { " ", "\t", "\n" }

RECURSIVE lstrip(_)
lstrip(s) ==
    IF s # << >> /\ Head(s) \in Whitespace THEN lstrip(Tail(s)) ELSE s

RECURSIVE rstrip(_)
rstrip(s) ==
    IF s # << >> /\ s[Len(s)] \in Whitespace
    THEN rstrip(SubSeq(s, 1, Len(s) - 1)) ELSE s

\* str.strip()
strip(s) == rstrip(lstrip(s))

Min(a, b) == IF a <= b THEN a ELSE b
Max(a, b) == IF a >= b THEN a ELSE b

----------------------------------------------------------------------------
(* SentimentAnalyzer *)

\* 0.5, in twentieths
NEUTRAL_SCORE == 20 \div 2

Labels == { "POSITIVE", "NEGATIVE", "NEUTRAL" }

\* the confidences the primary model may report (in [0,1], twentieths)
Confidences == { 0, 1, 10, 19, 20 }

\* the polarities the lexicon analyzer may report (in [-1,1], tenths)
Polarities == { -10, -2, -1, 0, 1, 2, 10 }

\* the model's input limit of text[:512]
ModelLimit == 512

\* text[:512], what the classifier is given
ClassifierInput(text) == SubSeq(text, 1, Min(Len(text), ModelLimit))

\* what self.classifier(input)[0] may do: raise, or answer a label and a score
ClassifierOutcomes(input) ==
    { [raises |-> TRUE, label |-> "NONE", score |-> 0] } \cup
    [raises : {FALSE}, label : {"POSITIVE", "NEGATIVE", "LABEL_1"}, score : Confidences]

\* what TextBlob(text).sentiment.polarity may do: raise, or answer a polarity
\* (0.0 for a text without any word)
TextBlobOutcomes(text) ==
    IF ~IsStr(text) THEN { [raises |-> TRUE, polarity |-> 0] }
    ELSE { [raises |-> TRUE, polarity |-> 0] } \cup
         [raises : {FALSE},
          polarity : IF strip(text) = << >> THEN {0} ELSE Polarities]

Return(label, score, invoked, how) ==
    [kind |-> "return", label |-> label, score |-> score,
     invoked |-> invoked, outcome |-> how]

Raise(invoked, how) ==
    [kind |-> "raise", label |-> "NONE", score |-> 0,
     invoked |-> invoked, outcome |-> how]

\* __init__ without the call of _setup_fallback
SentimentAnalyzer_init_NoFallback(loads, imports) ==
    [model_loaded |-> loads, use_textblob |-> FALSE]

\* __init__ and _setup_fallback: the strategy selection
SentimentAnalyzer_init(loads, imports) ==
    IF loads
    THEN [model_loaded |-> TRUE, use_textblob |-> FALSE]
    ELSE [model_loaded |-> FALSE, use_textblob |-> imports]

\* analyze_sentiment_distilbert(text), `out` being what the classifier does if called
analyze_sentiment_distilbert(text, out) ==
    IF text = NaN
    THEN Raise("none", "none")  \* nan is truthy and has no strip(): line 48 raises, outside the try
    ELSE IF PyNot(text) \/ Len(strip(text)) = 0
    THEN Return("NEUTRAL", NEUTRAL_SCORE, "none", "none")
    ELSE IF out.raises
    THEN Return("NEUTRAL", NEUTRAL_SCORE, "classifier", "raise")
    ELSE IF out.label = "POSITIVE"
    THEN Return("POSITIVE", out.score, "classifier", "ok")
    ELSE IF out.label = "NEGATIVE"
    THEN Return("NEGATIVE", out.score, "classifier", "ok")
    ELSE Return("NEUTRAL", NEUTRAL_SCORE, "classifier", "ok")

\* the lexicon fallback returning the raw polarity as the NEGATIVE score
analyze_sentiment_textblob_RawScore(text, out) ==
    IF out.raises
    THEN Raise("textblob", "raise")
    ELSE IF out.polarity > 1
    THEN Return("POSITIVE", out.polarity + 10, "textblob", "ok")
    ELSE IF out.polarity < -1
    THEN Return("NEGATIVE", 2 * out.polarity, "textblob", "ok")
    ELSE Return("NEUTRAL", NEUTRAL_SCORE, "textblob", "ok")

\* the lexicon fallback with the thresholds included in the outer labels
analyze_sentiment_textblob_AtThreshold(text, out) ==
    IF out.raises
    THEN Raise("textblob", "raise")
    ELSE IF out.polarity >= 1
    THEN Return("POSITIVE", out.polarity + 10, "textblob", "ok")
    ELSE IF out.polarity <= -1
    THEN Return("NEGATIVE", 10 - out.polarity, "textblob", "ok")
    ELSE Return("NEUTRAL", NEUTRAL_SCORE, "textblob", "ok")

\* analyze_sentiment_textblob(text), `out` being what TextBlob does
analyze_sentiment_textblob(text, out) ==
    IF out.raises
    THEN Raise("textblob", "raise")   \* no try around lines 72-73
    ELSE IF out.polarity > 1
    THEN Return("POSITIVE", out.polarity + 10, "textblob", "ok")
    ELSE IF out.polarity < -1
    THEN Return("NEGATIVE", 10 - out.polarity, "textblob", "ok")
    ELSE Return("NEUTRAL", NEUTRAL_SCORE, "textblob", "ok")

\* the branch lines 93-98 take
Strategy(ml, utb) ==
    IF ml THEN "distilbert" ELSE IF utb THEN "textblob" ELSE "none"

\* lines 93-98: the results one loop iteration can produce for `text`
ClassifyOne(ml, utb, text) ==
    IF ml
    THEN { analyze_sentiment_distilbert(text, out) :
               out \in ClassifierOutcomes(ClassifierInput(text)) }
    ELSE IF utb
    THEN { analyze_sentiment_textblob(text, out) : out \in TextBlobOutcomes(text) }
    ELSE { Return("NEUTRAL", NEUTRAL_SCORE, "none", "none") }

\* the texts a batch is drawn from
SentimentTexts ==
    { << >>, << " " >>, << "\t", " " >>, << "o", "k" >>, << " ", "n", "o" >>, NaN, None }

\* the longest batch
MaxBatch == 2

Batches == UNION { [1..n -> SentimentTexts] : n \in 0..MaxBatch }

SaInit ==
    /\ env_model_loads \in BOOLEAN
    /\ env_textblob_imports \in BOOLEAN
    /\ model_loaded = SentimentAnalyzer_init(env_model_loads, env_textblob_imports).model_loaded
    /\ use_textblob = SentimentAnalyzer_init(env_model_loads, env_textblob_imports).use_textblob
    /\ sa_pc = "ready"
    /\ df_text = << >>
    /\ idx = 0
    /\ sentiments = << >>
    /\ scores = << >>
    /\ df_sentiment_label = << >>
    /\ df_sentiment_score = << >>
    /\ sa_calls = << >>
    /\ sa_outcome = << >>
    /\ sa_used = << >>

\* a SentimentAnalyzer that is not used
SaIdle ==
    /\ env_model_loads = FALSE
    /\ env_textblob_imports = FALSE
    /\ model_loaded = FALSE
    /\ use_textblob = FALSE
    /\ sa_pc = "idle"
    /\ df_text = << >>
    /\ idx = 0
    /\ sentiments = << >>
    /\ scores = << >>
    /\ df_sentiment_label = << >>
    /\ df_sentiment_score = << >>
    /\ sa_calls = << >>
    /\ sa_outcome = << >>
    /\ sa_used = << >>

\* analyze_dataframe is called on a batch (lines 82-87)
analyze_dataframe_begin ==
    /\ sa_pc = "ready"
    /\ \E batch \in Batches : df_text' = batch
    /\ sa_pc' = "loop"
    /\ idx' = 0
    /\ sentiments' = << >>
    /\ scores' = << >>
    /\ df_sentiment_label' = << >>
    /\ df_sentiment_score' = << >>
    /\ sa_calls' = << >>
    /\ sa_outcome' = << >>
    /\ sa_used' = << >>
    /\ UNCHANGED << env_model_loads, env_textblob_imports, model_loaded, use_textblob >>
    /\ UNCHANGED saOthers

\* one iteration of the loop (lines 89-101)
analyze_dataframe_iter ==
    /\ sa_pc = "loop"
    /\ idx < Len(df_text)
    /\ \E r \in ClassifyOne(model_loaded, use_textblob, df_text[idx + 1]) :
          /\ sa_calls' = Append(sa_calls, r.invoked)
          /\ sa_outcome' = Append(sa_outcome, r.outcome)
          /\ sa_used' = Append(sa_used, Strategy(model_loaded, use_textblob))
          /\ IF r.kind = "return"
             THEN /\ sentiments' = Append(sentiments, r.label)
                  /\ scores' = Append(scores, r.score)
                  /\ idx' = idx + 1
                  /\ sa_pc' = "loop"
             ELSE /\ sa_pc' = "raised"   \* the exception leaves analyze_dataframe
                  /\ UNCHANGED << sentiments, scores, idx >>
    /\ UNCHANGED << env_model_loads, env_textblob_imports, model_loaded, use_textblob,
                    df_text, df_sentiment_label, df_sentiment_score >>
    /\ UNCHANGED saOthers

\* after the loop: the columns are attached (lines 103-110)
analyze_dataframe_end ==
    /\ sa_pc = "loop"
    /\ idx = Len(df_text)
    /\ df_sentiment_label' = sentiments
    /\ df_sentiment_score' = scores
    /\ sa_pc' = "done"
    /\ UNCHANGED << env_model_loads, env_textblob_imports, model_loaded, use_textblob,
                    df_text, idx, sentiments, scores, sa_calls, sa_outcome, sa_used >>
    /\ UNCHANGED saOthers

\* the call is over (line 110 returns df, or the exception has left the
\* method): the caller may call again on the same analyzer
analyze_dataframe_return ==
    /\ sa_pc \in { "done", "raised" }
    /\ sa_pc' = "ready"
    /\ df_text' = << >>
    /\ idx' = 0
    /\ sentiments' = << >>
    /\ scores' = << >>
    /\ df_sentiment_label' = << >>
    /\ df_sentiment_score' = << >>
    /\ sa_calls' = << >>
    /\ sa_outcome' = << >>
    /\ sa_used' = << >>
    /\ UNCHANGED << env_model_loads, env_textblob_imports, model_loaded, use_textblob >>
    /\ UNCHANGED saOthers

SaNext ==
    \/ analyze_dataframe_begin
    \/ analyze_dataframe_iter
    \/ analyze_dataframe_end
    \/ analyze_dataframe_return

----------------------------------------------------------------------------
(* ThemeAnalyzer: the taxonomy and classify_review_themes *)

\* the taxonomy, a dict in insertion order
initialize_theme_keywords ==
    <<
      [theme |-> "APP_PERFORMANCE", keywords |-> <<
          << "s", "l", "o", "w" >>,   \* slow
          << "f", "a", "s", "t" >>,   \* fast
          << "s", "p", "e", "e", "d" >>,   \* speed
          << "l", "o", "a", "d", "i", "n", "g" >>,   \* loading
          << "c", "r", "a", "s", "h" >>,   \* crash
          << "f", "r", "e", "e", "z", "e" >>,   \* freeze
          << "l", "a", "g" >>,   \* lag
          << "p", "e", "r", "f", "o", "r", "m", "a", "n", "c", "e" >>,   \* performance
          << "r", "e", "s", "p", "o", "n", "s", "i", "v", "e" >>,   \* responsive
          << "s", "m", "o", "o", "t", "h" >>,   \* smooth
          << "h", "a", "n", "g", "i", "n", "g" >>    \* hanging
      >>],
      [theme |-> "RELIABILITY_ISSUES", keywords |-> <<
          << "e", "r", "r", "o", "r" >>,   \* error
          << "b", "u", "g" >>,   \* bug
          << "g", "l", "i", "t", "c", "h" >>,   \* glitch
          << "n", "o", "t", " ", "w", "o", "r", "k", "i", "n", "g" >>,   \* not working
          << "p", "r", "o", "b", "l", "e", "m" >>,   \* problem
          << "i", "s", "s", "u", "e" >>,   \* issue
          << "f", "a", "i", "l", "e", "d" >>,   \* failed
          << "b", "r", "o", "k", "e", "n" >>,   \* broken
          << "t", "e", "c", "h", "n", "i", "c", "a", "l" >>,   \* technical
          << "m", "a", "l", "f", "u", "n", "c", "t", "i", "o", "n" >>,   \* malfunction
          << "d", "o", "w", "n" >>    \* down
      >>],
      [theme |-> "USER_INTERFACE", keywords |-> <<
          << "i", "n", "t", "e", "r", "f", "a", "c", "e" >>,   \* interface
          << "d", "e", "s", "i", "g", "n" >>,   \* design
          << "l", "a", "y", "o", "u", "t" >>,   \* layout
          << "n", "a", "v", "i", "g", "a", "t", "i", "o", "n" >>,   \* navigation
          << "m", "e", "n", "u" >>,   \* menu
          << "b", "u", "t", "t", "o", "n" >>,   \* button
          << "s", "c", "r", "e", "e", "n" >>,   \* screen
          << "d", "i", "s", "p", "l", "a", "y" >>,   \* display
          << "t", "h", "e", "m", "e" >>,   \* theme
          << "c", "o", "l", "o", "r" >>,   \* color
          << "f", "o", "n", "t" >>    \* font
      >>],
      [theme |-> "SECURITY_ACCESS", keywords |-> <<
          << "l", "o", "g", "i", "n" >>,   \* login
          << "p", "a", "s", "s", "w", "o", "r", "d" >>,   \* password
          << "s", "e", "c", "u", "r", "i", "t", "y" >>,   \* security
          << "a", "u", "t", "h", "e", "n", "t", "i", "c", "a", "t", "i", "o", "n" >>,   \* authentication
          << "b", "i", "o", "m", "e", "t", "r", "i", "c" >>,   \* biometric
          << "f", "i", "n", "g", "e", "r", "p", "r", "i", "n", "t" >>,   \* fingerprint
          << "f", "a", "c", "e", " ", "i", "d" >>,   \* face id
          << "p", "i", "n" >>,   \* pin
          << "v", "e", "r", "i", "f", "i", "c", "a", "t", "i", "o", "n" >>,   \* verification
          << "a", "c", "c", "e", "s", "s" >>    \* access
      >>],
      [theme |-> "TRANSACTIONS", keywords |-> <<
          << "t", "r", "a", "n", "s", "f", "e", "r" >>,   \* transfer
          << "p", "a", "y", "m", "e", "n", "t" >>,   \* payment
          << "t", "r", "a", "n", "s", "a", "c", "t", "i", "o", "n" >>,   \* transaction
          << "s", "e", "n", "d", " ", "m", "o", "n", "e", "y" >>,   \* send money
          << "r", "e", "c", "e", "i", "v", "e" >>,   \* receive
          << "b", "i", "l", "l" >>,   \* bill
          << "a", "i", "r", "t", "i", "m", "e" >>,   \* airtime
          << "m", "o", "b", "i", "l", "e", " ", "b", "a", "n", "k", "i", "n", "g" >>,   \* mobile banking
          << "f", "u", "n", "d" >>,   \* fund
          << "a", "m", "o", "u", "n", "t" >>    \* amount
      >>],
      [theme |-> "CUSTOMER_SUPPORT", keywords |-> <<
          << "s", "u", "p", "p", "o", "r", "t" >>,   \* support
          << "s", "e", "r", "v", "i", "c", "e" >>,   \* service
          << "h", "e", "l", "p" >>,   \* help
          << "a", "s", "s", "i", "s", "t", "a", "n", "c", "e" >>,   \* assistance
          << "r", "e", "s", "p", "o", "n", "s", "e" >>,   \* response
          << "c", "o", "n", "t", "a", "c", "t" >>,   \* contact
          << "c", "o", "m", "p", "l", "a", "i", "n", "t" >>,   \* complaint
          << "f", "e", "e", "d", "b", "a", "c", "k" >>,   \* feedback
          << "r", "e", "p", "r", "e", "s", "e", "n", "t", "a", "t", "i", "v", "e" >>    \* representative
      >>],
      [theme |-> "FEATURE_REQUEST", keywords |-> <<
          << "s", "h", "o", "u", "l", "d" >>,   \* should
          << "c", "o", "u", "l", "d" >>,   \* could
          << "w", "o", "u", "l", "d" >>,   \* would
          << "p", "l", "e", "a", "s", "e", " ", "a", "d", "d" >>,   \* please add
          << "n", "e", "e", "d" >>,   \* need
          << "w", "a", "n", "t" >>,   \* want
          << "m", "i", "s", "s", "i", "n", "g" >>,   \* missing
          << "s", "u", "g", "g", "e", "s", "t", "i", "o", "n" >>,   \* suggestion
          << "i", "m", "p", "r", "o", "v", "e", "m", "e", "n", "t" >>,   \* improvement
          << "e", "n", "h", "a", "n", "c", "e", "m", "e", "n", "t" >>    \* enhancement
      >>]
    >>

UpperCase == << "A", "B", "C", "D", "E", "F", "G", "H", "I", "J", "K", "L", "M",
                "N", "O", "P", "Q", "R", "S", "T", "U", "V", "W", "X", "Y", "Z" >>
LowerCase == << "a", "b", "c", "d", "e", "f", "g", "h", "i", "j", "k", "l", "m",
                "n", "o", "p", "q", "r", "s", "t", "u", "v", "w", "x", "y", "z" >>

\* str.lower() of one character
LowerChar(c) ==
    IF \E i \in 1..Len(UpperCase) : UpperCase[i] = c
    THEN LowerCase[CHOOSE i \in 1..Len(UpperCase) : UpperCase[i] = c]
    ELSE c

\* str.lower()
lower(s) == [i \in 1..Len(s) |-> LowerChar(s[i])]

\* `needle in hay` of two str
Contains(needle, hay) ==
    \E i \in 0..(Len(hay) - Len(needle)) : SubSeq(hay, i + 1, i + Len(needle)) = needle

\* lines 101-106 with the whole-word bonus forgotten
KeywordScore_NoBonus(keyword, text_lower) ==
    IF Contains(keyword, text_lower) THEN 1 ELSE 0

\* only a keyword standing as a whole word counts
KeywordScore_WholeWordOnly(keyword, text_lower) ==
    IF Contains(<< " " >> \o keyword \o << " " >>, << " " >> \o text_lower \o << " " >>) THEN 2 ELSE 0

\* lines 101-106: what one keyword adds to its theme's score
KeywordScore(keyword, text_lower) ==
    IF Contains(keyword, text_lower)
    THEN IF Contains(<< " " >> \o keyword \o << " " >>, << " " >> \o text_lower \o << " " >>)
         THEN 2
         ELSE 1
    ELSE 0

\* lines 99-106: the loop over one theme's keywords
RECURSIVE ThemeScore(_, _)
ThemeScore(keywords, text_lower) ==
    IF keywords = << >> THEN 0
    ELSE ThemeScore(SubSeq(keywords, 1, Len(keywords) - 1), text_lower)
         + KeywordScore(keywords[Len(keywords)], text_lower)

\* lines 96-109: theme_scores, a dict in insertion order holding the themes of score > 0
RECURSIVE ThemeScores(_, _)
ThemeScores(tk, text_lower) ==
    IF tk = << >> THEN << >>
    ELSE LET rest == ThemeScores(SubSeq(tk, 1, Len(tk) - 1), text_lower)
             last == tk[Len(tk)]
             score == ThemeScore(last.keywords, text_lower)
         IN  IF score > 0
             THEN Append(rest, [theme |-> last.theme, score |-> score])
             ELSE rest

\* max(theme_scores.values())
RECURSIVE MaxScore(_)
MaxScore(ts) ==
    IF Len(ts) = 1 THEN ts[1].score
    ELSE Max(MaxScore(SubSeq(ts, 1, Len(ts) - 1)), ts[Len(ts)].score)

\* score / max_score >= threshold, the threshold in tenths
AtLeast(score, max_score, threshold) == score * 10 >= threshold * max_score

Themes(ts) == [i \in 1..Len(ts) |-> ts[i].theme]

\* all seven themes scored, none dropped for a score of 0
RECURSIVE AllThemeScores(_, _)
AllThemeScores(tk, text_lower) ==
    IF tk = << >> THEN << >>
    ELSE Append(AllThemeScores(SubSeq(tk, 1, Len(tk) - 1), text_lower),
                [theme |-> tk[Len(tk)].theme,
                 score |-> ThemeScore(tk[Len(tk)].keywords, text_lower)])

\* classify_review_themes without `if score > 0`, comparing score >= threshold * max_score
classify_review_themes_KeepsZero(tk, text, threshold) ==
    IF PyNot(text) \/ text = NaN THEN << >>
    ELSE LET theme_scores == AllThemeScores(tk, lower(text))
             max_score == MaxScore(theme_scores)
         IN  Themes(SelectSeq(theme_scores,
                              LAMBDA e : AtLeast(e.score, max_score, threshold)))

\* insertion sort of theme_scores by score, descending, stable
RECURSIVE ByScore(_)
ByScore(ts) ==
    IF ts = << >> THEN << >>
    ELSE LET rest == ByScore(SubSeq(ts, 1, Len(ts) - 1))
             e == ts[Len(ts)]
             k == Cardinality({ i \in 1..Len(rest) : rest[i].score >= e.score })
         IN  SubSeq(rest, 1, k) \o << e >> \o SubSeq(rest, k + 1, Len(rest))

\* classify_review_themes returning the themes by descending score
classify_review_themes_ByScore(tk, text, threshold) ==
    IF PyNot(text) \/ text = NaN THEN << >>
    ELSE LET theme_scores == ByScore(ThemeScores(tk, lower(text)))
         IN  IF theme_scores # << >>
             THEN LET max_score == MaxScore(theme_scores)
                  IN  Themes(SelectSeq(theme_scores,
                                       LAMBDA e : AtLeast(e.score, max_score, threshold)))
             ELSE << >>

\* classify_review_themes(text, threshold) of an analyzer whose taxonomy is tk
classify_review_themes(tk, text, threshold) ==
    IF PyNot(text) \/ text = NaN THEN << >>
    ELSE LET theme_scores == ThemeScores(tk, lower(text))
         IN  IF theme_scores # << >>
             THEN LET max_score == MaxScore(theme_scores)
                  IN  Themes(SelectSeq(theme_scores,
                                       LAMBDA e : AtLeast(e.score, max_score, threshold)))
             ELSE << >>

\* the pieces the argument texts are made of
Pieces ==
    { << >>,
      << "o", "k" >>,
      << "s", "l", "o", "w" >>,
      << "c", "r", "a", "s", "h", "e", "s" >>,
      << "L", "o", "g", "i", "n" >>,
      << "n", "o", "t" >>,
      << "w", "o", "r", "k", "i", "n", "g" >>,
      << "s", "h", "o", "p", "p", "i", "n", "g" >>,
      << "t", "r", "a", "n", "s", "f", "e", "r", "\t" >>,
      \* five whole-word keywords of APP_PERFORMANCE: score 10
      << "f", "a", "s", "t", " ", "s", "p", "e", "e", "d", " ", "l", "a", "g", " ",
         "s", "m", "o", "o", "t", "h", " ", "f", "r", "e", "e", "z", "e" >> }

\* the most pieces of a text
MaxPieces == 2

\* ' '.join(pieces)
RECURSIVE Join(_)
Join(ps) ==
    IF ps = << >> THEN << >>
    ELSE IF Len(ps) = 1 THEN ps[1]
    ELSE Join(SubSeq(ps, 1, Len(ps) - 1)) \o << " " >> \o ps[Len(ps)]

ClassifyTexts ==
    { Join(ps) : ps \in UNION { [1..n -> Pieces] : n \in 0..MaxPieces } } \cup { NaN, None }

\* thresholds, in tenths: the default 0.1 is 1
Thresholds == { -10, 0, 1, 5, 6, 10, 15 }

ClInit ==
    /\ cl_pc = "call"
    /\ cl_text \in ClassifyTexts
    /\ cl_threshold \in Thresholds
    /\ cl_themes = << >>

ClIdle ==
    /\ cl_pc = "idle"
    /\ cl_text = << >>
    /\ cl_threshold = 1
    /\ cl_themes = << >>

\* classify_review_themes is applied to the arguments
ClassifyReviewThemes ==
    /\ cl_pc = "call"
    /\ cl_themes' = classify_review_themes(initialize_theme_keywords, cl_text, cl_threshold)
    /\ cl_pc' = "done"
    /\ UNCHANGED << cl_text, cl_threshold >>
    /\ UNCHANGED clOthers

ClNext == ClassifyReviewThemes

----------------------------------------------------------------------------
(* ThemeAnalyzer: keyword and n-gram extraction *)

\* the order of the characters of a term: ' ' before the letters
CharOrder == << " " >> \o LowerCase

Ord(c) == CHOOSE i \in 1..Len(CharOrder) : CharOrder[i] = c

\* a < b of two str
RECURSIVE StrLess(_, _)
StrLess(a, b) ==
    IF b = << >> THEN FALSE
    ELSE IF a = << >> THEN TRUE
    ELSE IF Head(a) = Head(b) THEN StrLess(Tail(a), Tail(b))
    ELSE Ord(Head(a)) < Ord(Head(b))

\* sorted(S) of a set of str
RECURSIVE SortedStrs(_)
SortedStrs(S) ==
    IF S = { } THEN << >>
    ELSE LET m == CHOOSE x \in S : \A y \in S \ { x } : StrLess(x, y)
         IN  << m >> \o SortedStrs(S \ { m })

\* the maximal runs of s of characters in S (inside = TRUE) or not in S (inside = FALSE)
RECURSIVE Runs(_, _, _, _)
Runs(s, S, inside, cur) ==
    IF s = << >> THEN (IF cur = << >> THEN << >> ELSE << cur >>)
    ELSE IF (Head(s) \in S) = inside
    THEN Runs(Tail(s), S, inside, Append(cur, Head(s)))
    ELSE (IF cur = << >> THEN << >> ELSE << cur >>) \o Runs(Tail(s), S, inside, << >>)

\* str.split()
split(s) == Runs(s, Whitespace, FALSE, << >>)

\* \w of the texts of the model: the letters
WordChars == { LowerCase[i] : i \in 1..Len(LowerCase) } \cup { UpperCase[i] : i \in 1..Len(UpperCase) }

\* the words of sklearn's ENGLISH_STOP_WORDS that the texts of the model use
StopWords ==
    { << "t", "h", "e" >>, << "i", "s" >>, << "n", "o", "t" >>, << "a", "n", "d" >> }

\* the analyzer of the vectorizer: lower-case, the tokens of \b\w\w+\b, stop words removed
TfidfTokens(doc) ==
    SelectSeq(Runs(lower(doc), WordChars, TRUE, << >>),
              LAMBDA w : Len(w) >= 2 /\ w \notin StopWords)

\* ngram_range=(1, 2): the tokens and the pairs of neighbours joined by ' '
TfidfTerms(doc) ==
    LET toks == TfidfTokens(doc)
    IN  toks \o [i \in 1..(Len(toks) - 1) |-> toks[i] \o << " " >> \o toks[i + 1]]

SeqToSet(q) == { q[i] : i \in 1..Len(q) }

Count(q, x) == Cardinality({ i \in 1..Len(q) : q[i] = x })

RECURSIVE SumOver(_, _)
SumOver(f, D) ==
    IF D = { } THEN 0
    ELSE LET d == CHOOSE d \in D : TRUE IN f[d] + SumOver(f, D \ { d })

\* max_features=100, min_df=2, max_df=0.8 (in tenths) of the vectorizer (lines 19-25)
max_features == 100
min_df == 2
max_df_tenths == 8

\* document frequency and total count of a term, terms[d] being the terms of document d
DocFreq(term, terms) == Cardinality({ d \in 1..Len(terms) : term \in SeqToSet(terms[d]) })
TermCount(term, terms) == SumOver([d \in 1..Len(terms) |-> Count(terms[d], term)], 1..Len(terms))

\* the max_features terms of S of highest total count (of equal counts, the first in lexical order)
RECURSIVE TopByCount(_, _, _)
TopByCount(S, terms, limit) ==
    IF S = { } \/ limit = 0 THEN { }
    ELSE LET m == CHOOSE x \in S : \A y \in S \ { x } :
                      \/ TermCount(x, terms) > TermCount(y, terms)
                      \/ TermCount(x, terms) = TermCount(y, terms) /\ StrLess(x, y)
         IN  { m } \cup TopByCount(S \ { m }, terms, limit - 1)

\* a fit that raised
FitRaised == [raises |-> TRUE, vocabulary |-> << >>, weights |-> << >>]

\* the terms of all documents
AllTerms(terms) == UNION { SeqToSet(terms[d]) : d \in 1..Len(terms) }

\* min_df and max_df: the terms in at least 2 documents and in at most 80% of them
KeptTerms(terms) ==
    { t \in AllTerms(terms) : /\ DocFreq(t, terms) >= min_df
                               /\ DocFreq(t, terms) * 10 <= max_df_tenths * Len(terms) }

\* max_features: at most 100 of them
LimitFeatures(kept, terms) ==
    IF Cardinality(kept) > max_features THEN TopByCount(kept, terms, max_features) ELSE kept

\* the matrix of a fit: one column per term of the vocabulary.  Of the matrix
\* the model keeps the mean weight of each column, and represents it by the
\* column's total count: the tf-idf weight itself (a logarithm and an L2
\* norm) is not computed.
FitMatrix(vocabulary, terms) ==
    [raises |-> FALSE, vocabulary |-> vocabulary,
     weights |-> [i \in 1..Len(vocabulary) |-> TermCount(vocabulary[i], terms)]]

FitLimited(limited, terms) ==
    IF limited = { }                                \* after pruning, no terms remain
    THEN FitRaised
    ELSE FitMatrix(SortedStrs(limited), terms)      \* the columns in lexical order

\* a fit without the document-frequency bounds (min_df=1, max_df=1.0)
FitOnTerms_NoDfBounds(terms) ==
    IF AllTerms(terms) = { }
    THEN FitRaised
    ELSE FitMatrix(SortedStrs(AllTerms(terms)), terms)

FitOnTerms(terms) ==
    IF AllTerms(terms) = { }                           \* empty vocabulary
       \/ max_df_tenths * Len(terms) < min_df * 10     \* max_df corresponds to < documents than min_df
    THEN FitRaised
    ELSE FitLimited(LimitFeatures(KeptTerms(terms), terms), terms)

\* TfidfVectorizer.fit_transform(texts): raises, or fits the vocabulary and
\* returns the matrix
fit_transform(texts) ==
    IF \E d \in 1..Len(texts) : ~IsStr(texts[d])
    THEN FitRaised
    ELSE FitOnTerms([d \in 1..Len(texts) |-> TfidfTerms(texts[d])])

\* zip(feature_names, scores): the names are the ones read from the
\* vectorizer, the scores the mean weights of the columns of the matrix
Zip(feature_names, matrix) ==
    [i \in 1..Min(Len(feature_names), Len(matrix.weights)) |->
        << feature_names[i], matrix.weights[i] >>]

\* list.sort(key=lambda x: x[1], reverse=True): stable, descending
RECURSIVE SortByScore(_)
SortByScore(q) ==
    IF q = << >> THEN << >>
    ELSE LET rest == SortByScore(SubSeq(q, 1, Len(q) - 1))
             e == q[Len(q)]
             k == Cardinality({ i \in 1..Len(rest) : rest[i][2] >= e[2] })
         IN  SubSeq(rest, 1, k) \o << e >> \o SubSeq(rest, k + 1, Len(rest))

\* q[:n]
Take(q, n) == SubSeq(q, 1, Min(Len(q), n))

\* top_n of extract_keywords_tfidf (line 60) and of extract_ngrams (line 78)
keywords_top_n == 20
ngrams_top_n == 15

\* lines 67-72: the ranking from the names read and the matrix
RankKeywords(feature_names, matrix) ==
    Take(SortByScore(Zip(feature_names, matrix)), keywords_top_n)

\* the vectorizer after a fit_transform that gave m, when it was `v` before:
\* a fit that raised leaves the fitted vocabulary as it was
VectorizerAfterFit(v, m) ==
    IF m.raises THEN v ELSE [fitted |-> TRUE, vocabulary_ |-> m.vocabulary]

\* lines 64-76 after a fit that gave m, the vectorizer now being in state v
KeywordsOfFit(v, m) ==
    [value |-> IF m.raises THEN << >> ELSE RankKeywords(v.vocabulary_, m),
     vectorizer |-> v]

\* extract_keywords_tfidf that fits only a vectorizer not fitted yet
extract_keywords_tfidf_FitOnce(v, texts) ==
    IF v.fitted THEN KeywordsOfFit(v, fit_transform(texts))
    ELSE KeywordsOfFit(VectorizerAfterFit(v, fit_transform(texts)), fit_transform(texts))

\* extract_keywords_tfidf(texts) run alone on a vectorizer in state v (lines
\* 60-76): the list it returns and the vectorizer it leaves
extract_keywords_tfidf(v, texts) ==
    KeywordsOfFit(VectorizerAfterFit(v, fit_transform(texts)), fit_transform(texts))

RECURSIVE Flatten(_)
Flatten(qs) ==
    IF qs = << >> THEN << >> ELSE Flatten(SubSeq(qs, 1, Len(qs) - 1)) \o qs[Len(qs)]

\* the n-grams of the words of all the texts put end to end
NgramList_AcrossDocuments(texts, n) ==
    [i \in 1..Max(0, Len(Flatten([d \in 1..Len(texts) |-> split(texts[d])])) - n + 1) |->
        Join(SubSeq(Flatten([d \in 1..Len(texts) |-> split(texts[d])]), i, i + n - 1))]

\* lines 80-86: the n-grams of the texts, in order
RECURSIVE NgramList(_, _)
NgramList(texts, n) ==
    IF texts = << >> THEN << >>
    ELSE LET words == split(texts[Len(texts)])
         IN  NgramList(SubSeq(texts, 1, Len(texts) - 1), n)
             \o [i \in 1..Max(0, Len(words) - n + 1) |-> Join(SubSeq(words, i, i + n - 1))]

\* the distinct elements of q in the order of their first occurrence
RECURSIVE Distinct(_)
Distinct(q) ==
    IF q = << >> THEN << >>
    ELSE LET rest == Distinct(SubSeq(q, 1, Len(q) - 1))
         IN  IF q[Len(q)] \in SeqToSet(rest) THEN rest ELSE Append(rest, q[Len(q)])

\* Counter(q).most_common(): by count descending, equal counts in order of first occurrence
most_common(q) ==
    LET keys == Distinct(q)
    IN  SortByScore([i \in 1..Len(keys) |-> << keys[i], Count(q, keys[i]) >>])

\* extract_ngrams(texts, n): raises on a text that is no str (it has no split())
extract_ngrams(texts, n) ==
    IF \E d \in 1..Len(texts) : ~IsStr(texts[d])
    THEN [raises |-> TRUE, value |-> << >>]
    ELSE [raises |-> FALSE, value |-> Take(most_common(NgramList(texts, n)), ngrams_top_n)]

\* extract_ngrams(texts, n, top_n), top_n given by the caller (lines 78-88)
extract_ngrams_top_n(texts, n, top_n) ==
    IF \E d \in 1..Len(texts) : ~IsStr(texts[d])
    THEN [raises |-> TRUE, value |-> << >>]
    ELSE [raises |-> FALSE, value |-> Take(most_common(NgramList(texts, n)), top_n)]

----------------------------------------------------------------------------
(* One ThemeAnalyzer object, called operation after operation *)

\* __init__ (lines 17-25): the vectorizer is constructed, not fitted
NewVectorizer == [fitted |-> FALSE, vocabulary_ |-> << >>]

\* the documents the groups are made of: "slow app", "slow login", "good login", a missing text
Docs ==
    { << "s", "l", "o", "w", " ", "a", "p", "p" >>,
      << "s", "l", "o", "w", " ", "l", "o", "g", "i", "n" >>,
      << "g", "o", "o", "d", " ", "l", "o", "g", "i", "n" >>,
      NaN }

\* the most documents of a group
MaxDocs == 3

Groups == UNION { [1..n -> Docs] : n \in 0..MaxDocs }

\* df['bank'].unique(): the banks in the order of their first row
RECURSIVE UniqueBanks(_)
UniqueBanks(df) ==
    IF df = << >> THEN << >>
    ELSE LET rest == UniqueBanks(SubSeq(df, 1, Len(df) - 1))
         IN  IF df[Len(df)].bank \in SeqToSet(rest) THEN rest ELSE Append(rest, df[Len(df)].bank)

\* df[df['bank'] == bank]
BankRows(df, bank) == SelectSeq(df, LAMBDA r : r.bank = bank)

Column(rows, c) == [i \in 1..Len(rows) |-> rows[i][c]]

\* df[df['themes'].apply(lambda x: theme in x)]: the rows whose themes hold `theme`
RowsOfTheme(theme, rows, themes) ==
    LET marked == [i \in 1..Len(rows) |-> [row |-> rows[i], has |-> theme \in SeqToSet(themes[i])]]
    IN  SelectSeq(marked, LAMBDA e : e.has)

\* theme_reviews.head(n_samples)['review_cleaned'].tolist()
HeadSamples(marked) == [k \in 1..Min(2, Len(marked)) |-> marked[k].row.review_cleaned]

\* _get_theme_samples (lines 155-165): per theme with a review, its first two reviews
theme_samples(tk, rows, themes) ==
    SelectSeq([n \in 1..Len(tk) |->
                  [theme |-> tk[n].theme,
                   samples |-> HeadSamples(RowsOfTheme(tk[n].theme, rows, themes))]],
              LAMBDA e : e.samples # << >>)

\* lines 143-149: the entry of one bank
BankEntry(tk, bank, rows, keywords, bigrams, trigrams, themes) ==
    [raises |-> bigrams.raises \/ trigrams.raises,
     vectorizer |-> keywords.vectorizer,
     value |-> [bank |-> bank,
                top_keywords |-> Take(keywords.value, 10),
                top_bigrams |-> bigrams.value,
                top_trigrams |-> trigrams.value,
                theme_distribution |-> most_common(Flatten(themes)),
                sample_reviews |-> theme_samples(tk, rows, themes)]]

\* lines 131-137: the keywords, bigrams, trigrams and themes of the reviews of one bank
BankReviewsAnalysis(tk, v, bank, rows, bank_reviews) ==
    BankEntry(tk, bank, rows,
              extract_keywords_tfidf(v, bank_reviews),
              extract_ngrams(bank_reviews, 2),
              extract_ngrams(bank_reviews, 3),
              [i \in 1..Len(bank_reviews) |-> classify_review_themes(tk, bank_reviews[i], 1)])

\* the body of the loop of analyze_themes_by_bank for one bank (lines 127-149),
\* the vectorizer being in state v
BankAnalysis(tk, v, df, bank) ==
    BankReviewsAnalysis(tk, v, bank, BankRows(df, bank), Column(BankRows(df, bank), "processed_text"))

\* analyze_themes_by_bank(df) over the banks still to do (lines 126-153): what
\* it returns or that it raises, and the vectorizer it leaves
RECURSIVE AnalyzeBanks(_, _, _, _, _)
RECURSIVE AfterBank(_, _, _, _, _)
AnalyzeBanks(tk, v, df, banks, done) ==
    IF banks = << >> THEN [raises |-> FALSE, value |-> done, vectorizer |-> v]
    ELSE AfterBank(tk, df, banks, done, BankAnalysis(tk, v, df, Head(banks)))

\* the loop after one bank: its exception leaves the method, else the next bank
AfterBank(tk, df, banks, done, a) ==
    IF a.raises THEN [raises |-> TRUE, value |-> << >>, vectorizer |-> a.vectorizer]
    ELSE AnalyzeBanks(tk, a.vectorizer, df, Tail(banks), Append(done, a.value))

analyze_themes_by_bank(tk, v, df) == AnalyzeBanks(tk, v, df, UniqueBanks(df), << >>)

\* the rows of one bank, review_cleaned being the text as it is
Rows(bank, texts) ==
    [i \in 1..Len(texts) |->
        [bank |-> bank, processed_text |-> texts[i], review_cleaned |-> texts[i]]]

\* the groups the data frames are made of
BankGroups ==
    LET d1 == << "s", "l", "o", "w", " ", "a", "p", "p" >>
        d2 == << "s", "l", "o", "w", " ", "l", "o", "g", "i", "n" >>
        d3 == << "g", "o", "o", "d", " ", "l", "o", "g", "i", "n" >>
    IN  { << >>, << d1 >>, << d1, d1, d1 >>, << d1, d1, d3 >>, << d1, d2, d3 >>, << d3, NaN >> }

\* data frames: the rows of bank A, then those of bank B, or the two taking turns
DataFrames ==
    { Rows("A", a) \o Rows("B", b) : a \in BankGroups, b \in BankGroups } \cup
    { [i \in 1..(2 * Len(a)) |->
         IF i % 2 = 1 THEN Rows("B", a)[(i + 1) \div 2] ELSE Rows("A", a)[i \div 2]] :
      a \in BankGroups }

\* the texts and thresholds (tenths) classify_review_themes is called with
ThTexts ==
    { << >>, NaN,
      << "o", "k" >>,
      << "s", "l", "o", "w", " ", "a", "p", "p" >>,
      << "c", "r", "a", "s", "h", "e", "s", " ", "L", "o", "g", "i", "n" >> }

ThThresholds == { 1, 6 }

NoCall == [op |-> "none", text |-> << >>, threshold |-> 1, texts |-> << >>, n |-> 0, df |-> << >>]

TaInit ==
    /\ theme_keywords = initialize_theme_keywords
    /\ vectorizer = NewVectorizer

ThInit ==
    /\ th_pc = "idle"
    /\ th_call = NoCall
    /\ th_result = << >>

ThIdle ==
    /\ th_pc = "unused"
    /\ th_call = NoCall
    /\ th_result = << >>

\* a call of classify_review_themes(text, threshold)
ClassifyReviewThemesCall ==
    /\ th_pc = "idle"
    /\ \E text \in ThTexts, threshold \in ThThresholds :
          /\ th_call' = [NoCall EXCEPT !.op = "classify_review_themes",
                                       !.text = text, !.threshold = threshold]
          /\ th_result' = classify_review_themes(theme_keywords, text, threshold)
    /\ th_pc' = "returned"
    /\ UNCHANGED << theme_keywords, vectorizer >>
    /\ UNCHANGED thOthers

\* a call of extract_keywords_tfidf that adds the top keyword to the taxonomy
ExtractKeywordsTfidfCall_Learns ==
    /\ th_pc = "idle"
    /\ \E texts \in Groups :
          \E r \in { extract_keywords_tfidf(vectorizer, texts) } :
              /\ th_call' = [NoCall EXCEPT !.op = "extract_keywords_tfidf", !.texts = texts]
              /\ th_result' = r.value
              /\ vectorizer' = r.vectorizer
              /\ theme_keywords' =
                    IF r.value = << >> THEN theme_keywords
                    ELSE [theme_keywords EXCEPT ![7].keywords = Append(@, r.value[1][1])]
    /\ th_pc' = "returned"
    /\ UNCHANGED thOthers

\* a call of extract_keywords_tfidf(texts)
ExtractKeywordsTfidfCall ==
    /\ th_pc = "idle"
    /\ \E texts \in Groups :
          \E r \in { extract_keywords_tfidf(vectorizer, texts) } :
              /\ th_call' = [NoCall EXCEPT !.op = "extract_keywords_tfidf", !.texts = texts]
              /\ th_result' = r.value
              /\ vectorizer' = r.vectorizer
    /\ th_pc' = "returned"
    /\ UNCHANGED theme_keywords
    /\ UNCHANGED thOthers

\* a call of extract_ngrams(texts, n)
ExtractNgramsCall ==
    /\ th_pc = "idle"
    /\ \E texts \in Groups, n \in { 2, 3 } :
          /\ th_call' = [NoCall EXCEPT !.op = "extract_ngrams", !.texts = texts, !.n = n]
          /\ th_result' = extract_ngrams(texts, n)
    /\ th_pc' = "returned"
    /\ UNCHANGED << theme_keywords, vectorizer >>
    /\ UNCHANGED thOthers

\* a call of analyze_themes_by_bank(df)
AnalyzeThemesByBankCall ==
    /\ th_pc = "idle"
    /\ \E df \in DataFrames :
          \E r \in { analyze_themes_by_bank(theme_keywords, vectorizer, df) } :
              /\ th_call' = [NoCall EXCEPT !.op = "analyze_themes_by_bank", !.df = df]
              /\ th_result' = [raises |-> r.raises, value |-> r.value]
              /\ vectorizer' = r.vectorizer
    /\ th_pc' = "returned"
    /\ UNCHANGED theme_keywords
    /\ UNCHANGED thOthers

\* the caller is done with the result and may call again
ThReturn ==
    /\ th_pc = "returned"
    /\ th_pc' = "idle"
    /\ th_call' = NoCall
    /\ th_result' = << >>
    /\ UNCHANGED << theme_keywords, vectorizer >>
    /\ UNCHANGED thOthers

ThNext ==
    \/ ClassifyReviewThemesCall
    \/ ExtractKeywordsTfidfCall
    \/ ExtractNgramsCall
    \/ AnalyzeThemesByBankCall
    \/ ThReturn

----------------------------------------------------------------------------
(* extract_ngrams called with a window size and a top_n *)

\* the documents of the calls: "a b a b", "a a a", "b a", "b", "", " a  b "
NgramDocs ==
    { << "a", " ", "b", " ", "a", " ", "b" >>,
      << "a", " ", "a", " ", "a" >>,
      << "b", " ", "a" >>,
      << "b" >>,
      << >>,
      << " ", "a", " ", " ", "b", " " >> }

\* the most documents of a call
MaxNgramDocs == 2

NgramGroups == UNION { [1..n -> NgramDocs] : n \in 0..MaxNgramDocs }

NoNgramCall == [op |-> "none", texts |-> << >>, n |-> 0, top_n |-> 0]

NgInit ==
    /\ th_pc = "idle"
    /\ th_call = NoNgramCall
    /\ th_result = << >>

\* a call of extract_ngrams(texts, n, top_n)
ExtractNgramsTopNCall ==
    /\ th_pc = "idle"
    /\ \E texts \in NgramGroups, n \in { 1, 2, 3 }, top_n \in { 1, 2, ngrams_top_n } :
          /\ th_call' = [op |-> "extract_ngrams", texts |-> texts, n |-> n, top_n |-> top_n]
          /\ th_result' = extract_ngrams_top_n(texts, n, top_n)
    /\ th_pc' = "returned"
    /\ UNCHANGED << theme_keywords, vectorizer >>
    /\ UNCHANGED thOthers

\* the caller is done with the result and may call again
NgReturn ==
    /\ th_pc = "returned"
    /\ th_pc' = "idle"
    /\ th_call' = NoNgramCall
    /\ th_result' = << >>
    /\ UNCHANGED << theme_keywords, vectorizer >>
    /\ UNCHANGED thOthers

NgNext ==
    \/ ExtractNgramsTopNCall
    \/ NgReturn

----------------------------------------------------------------------------
(* Two extract_keywords_tfidf calls in parallel on one ThemeAnalyzer *)

Callers == { 1, 2 }

ParInit ==
    /\ p_pc = [c \in Callers |-> "fit"]
    /\ p_texts \in [Callers -> Groups]
    /\ p_matrix = [c \in Callers |-> FitRaised]
    /\ p_names = [c \in Callers |-> << >>]
    /\ p_result = [c \in Callers |-> << >>]

ParIdle ==
    /\ p_pc = [c \in Callers |-> "unused"]
    /\ p_texts = [c \in Callers |-> << >>]
    /\ p_matrix = [c \in Callers |-> FitRaised]
    /\ p_names = [c \in Callers |-> << >>]
    /\ p_result = [c \in Callers |-> << >>]

\* line 63: tfidf_matrix = self.vectorizer.fit_transform(texts); when it
\* raises, line 76 returns []
Fit(c) ==
    /\ p_pc[c] = "fit"
    /\ \E m \in { fit_transform(p_texts[c]) } :
           /\ p_matrix' = [p_matrix EXCEPT ![c] = m]
           /\ vectorizer' = VectorizerAfterFit(vectorizer, m)
           /\ p_pc' = [p_pc EXCEPT ![c] = IF m.raises THEN "done" ELSE "read"]
    /\ UNCHANGED << theme_keywords, p_texts, p_names, p_result >>
    /\ UNCHANGED parOthers

\* line 64: feature_names = self.vectorizer.get_feature_names_out()
ReadNames(c) ==
    /\ p_pc[c] = "read"
    /\ p_names' = [p_names EXCEPT ![c] = vectorizer.vocabulary_]
    /\ p_pc' = [p_pc EXCEPT ![c] = "rank"]
    /\ UNCHANGED << theme_keywords, vectorizer, p_texts, p_matrix, p_result >>
    /\ UNCHANGED parOthers

\* lines 67-72: the mean weights, zipped with the names, sorted, cut
Rank(c) ==
    /\ p_pc[c] = "rank"
    /\ p_result' = [p_result EXCEPT ![c] = RankKeywords(p_names[c], p_matrix[c])]
    /\ p_pc' = [p_pc EXCEPT ![c] = "done"]
    /\ UNCHANGED << theme_keywords, vectorizer, p_texts, p_matrix, p_names >>
    /\ UNCHANGED parOthers

ParNext == \E c \in Callers : Fit(c) \/ ReadNames(c) \/ Rank(c)

----------------------------------------------------------------------------
(* TextPreprocessor (src/utils/text_preprocessor.py) *)

Digits == { "0", "1", "2", "3", "4", "5", "6", "7", "8", "9" }

\* \w of a regular expression: letters, digits and the underscore
ReWord == WordChars \cup Digits \cup { "_" }

\* does `prefix` stand in s at position i
StandsAt(prefix, s, i) ==
    /\ i + Len(prefix) - 1 <= Len(s)
    /\ \A j \in 1..Len(prefix) : s[i + j - 1] = prefix[j]

\* the end of the longest run from position i of characters in S (inside =
\* TRUE) or not in S (inside = FALSE); i - 1 when there is none
RECURSIVE RunEnd(_, _, _, _)
RunEnd(s, i, S, inside) ==
    IF i <= Len(s) /\ (s[i] \in S) = inside THEN RunEnd(s, i + 1, S, inside) ELSE i - 1

\* re.sub(prefix + class + '+', '', s) from position i on: the matches are
\* found from left to right, each as long as it can be
RECURSIVE SubPrefixed(_, _, _, _, _)
SubPrefixed(s, i, prefix, S, inside) ==
    IF i > Len(s) THEN << >>
    ELSE IF StandsAt(prefix, s, i)
            /\ RunEnd(s, i + Len(prefix), S, inside) >= i + Len(prefix)
    THEN SubPrefixed(s, RunEnd(s, i + Len(prefix), S, inside) + 1, prefix, S, inside)
    ELSE << s[i] >> \o SubPrefixed(s, i + 1, prefix, S, inside)

\* re.sub(r'http\S+', '', text)
RemoveUrls(s) == SubPrefixed(s, 1, << "h", "t", "t", "p" >>, Whitespace, FALSE)

\* re.sub(r'@\w+', '', text)
RemoveMentions(s) == SubPrefixed(s, 1, << "@" >>, ReWord, TRUE)

\* re.sub(r'#\w+', '', text)
RemoveHashtags(s) == SubPrefixed(s, 1, << "#" >>, ReWord, TRUE)

\* re.sub(r'\d+', '', text)
RemoveNumbers(s) == SelectSeq(s, LAMBDA c : c \notin Digits)

\* re.sub(r'[^\w\s]', ' ', text)
RemovePunctuation(s) ==
    [i \in 1..Len(s) |-> IF s[i] \in ReWord \cup Whitespace THEN s[i] ELSE " "]

\* re.sub(r'\s+', ' ', text)
RECURSIVE CollapseWhitespace(_)
CollapseWhitespace(s) ==
    IF s = << >> THEN << >>
    ELSE IF Head(s) \in Whitespace
    THEN << " " >> \o CollapseWhitespace(lstrip(s))
    ELSE << Head(s) >> \o CollapseWhitespace(Tail(s))

\* clean_text (lines 23-40); str(text) of a str is the str
clean_text(text) ==
    IF ~IsStr(text) THEN << >>     \* pd.isna(text): NaN and None
    ELSE strip(CollapseWhitespace(RemovePunctuation(RemoveNumbers(
             RemoveHashtags(RemoveMentions(RemoveUrls(lower(text))))))))

\* tokenize_text (lines 42-54) without the spaCy model: the words of more than 2 characters
tokenize_text(text) == SelectSeq(split(clean_text(text)), LAMBDA w : Len(w) > 2)

\* preprocess_dataframe (lines 56-73) on the rows of a DataFrame: the columns
\* processed_text, tokens, token_count and char_count are added to every
\* row.  The tokens are those of the basic tokenizer (has_spacy = False); no
\* later stage reads them.
preprocess_dataframe(df) ==
    [i \in 1..Len(df) |->
        [bank |-> df[i].bank,
         review_cleaned |-> df[i].review_cleaned,
         rating |-> df[i].rating,
         processed_text |-> clean_text(df[i].review_cleaned),
         tokens |-> tokenize_text(clean_text(df[i].review_cleaned)),
         token_count |-> Len(tokenize_text(clean_text(df[i].review_cleaned))),
         char_count |-> Len(clean_text(df[i].review_cleaned))]]

----------------------------------------------------------------------------
(* NLPAnalysisPipeline (src/nlp_analysis/main_pipeline.py) *)

\* the content of a file pd.read_csv cannot read
Unreadable == [readable |-> FALSE, rows |-> << >>]

\* the rows the input files are made of: "Slow App!" and "slow app" (both
\* normalized to "slow app"), "good login" and a missing review
FileRows ==
    { [bank |-> "A", rating |-> 1, review_cleaned |-> << "S", "l", "o", "w", " ", "A", "p", "p", "!" >>],
      [bank |-> "A", rating |-> 5, review_cleaned |-> NaN],
      [bank |-> "B", rating |-> 5, review_cleaned |-> << "g", "o", "o", "d", " ", "l", "o", "g", "i", "n" >>],
      [bank |-> "B", rating |-> 2, review_cleaned |-> << "s", "l", "o", "w", " ", "a", "p", "p" >>] }

\* the most rows of an input file
MaxRows == 2

Files ==
    { Unreadable } \cup
    { [readable |-> TRUE, rows |-> rows] : rows \in UNION { [1..n -> FileRows] : n \in 1..MaxRows } }

\* the scores (twentieths) of the answers the run's sentiment analyzer gives
RunScores == { 10, 12, 19 }

\* the results one text can get in the run: those of lines 93-98 with a score of RunScores
RunClassifyOne(ml, utb, text) ==
    { r \in ClassifyOne(ml, utb, text) : r.kind = "raise" \/ r.score \in RunScores }

\* the lists filled from the last text to the first
SentimentLists_Reversed(df, outs) ==
    [i \in 1..Len(df) |->
        [label |-> outs[Len(df) + 1 - i].label, score |-> outs[Len(df) + 1 - i].score,
         outcome |-> outs[Len(df) + 1 - i].outcome,
         input |-> df[Len(df) + 1 - i].processed_text]]

\* lines 86-101 in one step, the external analyzer answering outs[i] for the
\* i-th text: the lists sentiments and scores (with, as history, the text
\* each entry was computed from and how the analyzer answered)
SentimentLists(df, outs) ==
    [i \in 1..Len(df) |->
        [label |-> outs[i].label, score |-> outs[i].score,
         outcome |-> outs[i].outcome, input |-> df[i].processed_text]]

\* lines 103-104: df['sentiment_label'] = sentiments, df['sentiment_score'] = scores
AttachSentiment(df, lists) ==
    [i \in 1..Len(df) |->
        [bank |-> df[i].bank,
         review_cleaned |-> df[i].review_cleaned,
         rating |-> df[i].rating,
         processed_text |-> df[i].processed_text,
         tokens |-> df[i].tokens,
         token_count |-> df[i].token_count,
         char_count |-> df[i].char_count,
         sentiment_label |-> lists[i].label,
         sentiment_score |-> lists[i].score,
         sentiment_outcome |-> lists[i].outcome,
         sentiment_input |-> lists[i].input]]

\* analyze_dataframe (lines 82-110) in one step: the rows with the two
\* columns attached, or the exception that leaves the loop
analyze_dataframe(df, outs) ==
    IF \E i \in 1..Len(df) : outs[i].kind = "raise"
    THEN [raises |-> TRUE, value |-> << >>]
    ELSE [raises |-> FALSE, value |-> AttachSentiment(df, SentimentLists(df, outs))]

\* line 61: df_sentiment['themes'] = df_sentiment['processed_text'].apply(classify_review_themes)
AttachThemes(tk, df) ==
    [i \in 1..Len(df) |->
        [bank |-> df[i].bank,
         review_cleaned |-> df[i].review_cleaned,
         rating |-> df[i].rating,
         processed_text |-> df[i].processed_text,
         tokens |-> df[i].tokens,
         token_count |-> df[i].token_count,
         char_count |-> df[i].char_count,
         sentiment_label |-> df[i].sentiment_label,
         sentiment_score |-> df[i].sentiment_score,
         sentiment_outcome |-> df[i].sentiment_outcome,
         sentiment_input |-> df[i].sentiment_input,
         themes |-> classify_review_themes(tk, df[i].processed_text, 1)]]

\* the values of a column, as a set
ValuesOf(df, c) == { df[i][c] : i \in 1..Len(df) }

\* Series.value_counts().to_dict(): the count of every value that occurs
value_counts(q) == [x \in SeqToSet(q) |-> Count(q, x)]

\* per value of c the count over all rows, whatever the group
GroupedCounts_AllGroups(df, by, c) ==
    [x \in ValuesOf(df, c) |->
        [g \in ValuesOf(df, by) |-> Cardinality({ i \in 1..Len(df) : df[i][c] = x })]]

\* df.groupby(by)[c].value_counts().unstack().to_dict(): per value of c, per
\* value of `by`, the count, NaN where the pair does not occur
GroupedCounts(df, by, c) ==
    [x \in ValuesOf(df, c) |->
        [g \in ValuesOf(df, by) |->
            IF \E i \in 1..Len(df) : df[i][by] = g /\ df[i][c] = x
            THEN Cardinality({ i \in 1..Len(df) : df[i][by] = g /\ df[i][c] = x })
            ELSE NaN]]

\* the mean of a list of numbers, as << sum, count >>
Mean(q) == << SumOver(q, 1..Len(q)), Len(q) >>

\* generate_sentiment_report (sentiment_analyzer.py lines 112-122)
generate_sentiment_report(df) ==
    [total_reviews |-> Len(df),
     sentiment_distribution |-> value_counts(Column(df, "sentiment_label")),
     sentiment_by_bank |-> GroupedCounts(df, "bank", "sentiment_label"),
     avg_sentiment_score_by_bank |->
        [g \in ValuesOf(df, "bank") |-> Mean(Column(BankRows(df, g), "sentiment_score"))],
     sentiment_by_rating |-> GroupedCounts(df, "rating", "sentiment_label")]

\* the characters of the theme tags
ThemeText ==
    [APP_PERFORMANCE |-> << "A", "P", "P", "_", "P", "E", "R", "F", "O", "R", "M", "A", "N", "C", "E" >>,
     RELIABILITY_ISSUES |-> << "R", "E", "L", "I", "A", "B", "I", "L", "I", "T", "Y", "_", "I", "S", "S", "U", "E", "S" >>,
     USER_INTERFACE |-> << "U", "S", "E", "R", "_", "I", "N", "T", "E", "R", "F", "A", "C", "E" >>,
     SECURITY_ACCESS |-> << "S", "E", "C", "U", "R", "I", "T", "Y", "_", "A", "C", "C", "E", "S", "S" >>,
     TRANSACTIONS |-> << "T", "R", "A", "N", "S", "A", "C", "T", "I", "O", "N", "S" >>,
     CUSTOMER_SUPPORT |-> << "C", "U", "S", "T", "O", "M", "E", "R", "_", "S", "U", "P", "P", "O", "R", "T" >>,
     FEATURE_REQUEST |-> << "F", "E", "A", "T", "U", "R", "E", "_", "R", "E", "Q", "U", "E", "S", "T" >>]

\* sep.join(parts) of str
RECURSIVE JoinWith(_, _)
JoinWith(sep, parts) ==
    IF parts = << >> THEN << >>
    ELSE IF Len(parts) = 1 THEN parts[1]
    ELSE parts[1] \o sep \o JoinWith(sep, Tail(parts))

NoThemes == << "N", "o", " ", "t", "h", "e", "m", "e", "s" >>

\* line 94: ', '.join(x) if x else 'No themes'
identified_themes(x) ==
    IF x = << >> THEN NoThemes
    ELSE JoinWith(<< ",", " " >>, [i \in 1..Len(x) |-> ThemeText[x[i]]])

\* lines 89-98: the rows of the main analysis CSV (the date column is left out)
main_analysis_df(df) ==
    [i \in 1..Len(df) |->
        [review_id |-> i - 1,
         review_text |-> df[i].review_cleaned,
         sentiment_label |-> df[i].sentiment_label,
         sentiment_score |-> df[i].sentiment_score,
         identified_themes |-> identified_themes(df[i].themes),
         bank |-> df[i].bank,
         rating |-> df[i].rating]]

\* lines 105-120: the rows of the keywords CSV of one bank
KeywordRows(analysis) ==
    [k \in 1..Len(analysis.top_keywords) |->
        [bank |-> analysis.bank, keyword |-> analysis.top_keywords[k][1],
         tfidf_score |-> analysis.top_keywords[k][2], type |-> "keyword"]]
    \o [k \in 1..Len(analysis.top_bigrams) |->
        [bank |-> analysis.bank, keyword |-> analysis.top_bigrams[k][1],
         tfidf_score |-> analysis.top_bigrams[k][2], type |-> "bigram"]]

\* lines 128-136: the rows of the theme clusters CSV of one bank, the
\* percentage as << count, reviews of the bank >>
ThemeClusterRows(df, analysis) ==
    [k \in 1..Len(analysis.theme_distribution) |->
        [bank |-> analysis.bank, theme |-> analysis.theme_distribution[k][1],
         review_count |-> analysis.theme_distribution[k][2],
         percentage |-> << analysis.theme_distribution[k][2], Len(BankRows(df, analysis.bank)) >>]]

\* the texts pd.read_csv takes for a missing value
NaValues ==
    { << >>, << "N", "A" >>, << "N", "/", "A" >>, << "n", "/", "a" >>, << "N", "U", "L", "L" >>,
      << "n", "u", "l", "l" >>, << "N", "a", "N" >>, << "n", "a", "n" >> }

\* a text cell written by to_csv and read back by read_csv
csv_text(v) == IF v = NaN \/ v \in NaValues THEN NaN ELSE v

\* the rows of the main analysis file as pd.read_csv gives them back
read_csv(rows) ==
    [i \in 1..Len(rows) |->
        [rows[i] EXCEPT !.review_text = csv_text(@), !.identified_themes = csv_text(@)]]

\* save_results (lines 83-146): the four files written
save_results(df, theme_analysis) ==
    [sentiment_themes_analysis |-> main_analysis_df(df),
     extracted_keywords |->
        Flatten([b \in 1..Len(theme_analysis) |-> KeywordRows(theme_analysis[b])]),
     theme_clusters |->
        Flatten([b \in 1..Len(theme_analysis) |-> ThemeClusterRows(df, theme_analysis[b])]),
     reviews_with_sentiment_themes |-> df]

\* an entry of the history of a run: the stage, and the row it worked on or
\* the bank and the texts it was called with
Event(stage, row, bank, texts) == [stage |-> stage, row |-> row, bank |-> bank, texts |-> texts]

RowEvents(stage, rows) == [k \in 1..Len(rows) |-> Event(stage, rows[k], "", << >>)]

\* the indices of the rows of a bank, in order
RowsOfBank(df, bank) == SelectSeq([i \in 1..Len(df) |-> i], LAMBDA i : df[i].bank = bank)

\* the history of analyze_themes_by_bank (theme_analyzer.py lines 126-137):
\* bank after bank, the keyword extraction on the bank's texts (line 131),
\* then the classification of the bank's reviews (line 137)
ThemeAnalysisEvents(df) ==
    Flatten([b \in 1..Len(UniqueBanks(df)) |->
                << Event("extract_keywords", 0, UniqueBanks(df)[b],
                         Column(BankRows(df, UniqueBanks(df)[b]), "processed_text")) >>
                \o RowEvents("bank_themes", RowsOfBank(df, UniqueBanks(df)[b]))])

\* a pipeline whose SentimentAnalyzer selected its strategy at construction
\* and whose ThemeAnalyzer is new (lines 21-25), before run_complete_analysis
PlConstructed ==
    /\ env_model_loads \in BOOLEAN
    /\ env_textblob_imports \in BOOLEAN
    /\ model_loaded = SentimentAnalyzer_init(env_model_loads, env_textblob_imports).model_loaded
    /\ use_textblob = SentimentAnalyzer_init(env_model_loads, env_textblob_imports).use_textblob
    /\ sa_pc = "idle"
    /\ df_text = << >>
    /\ idx = 0
    /\ sentiments = << >>
    /\ scores = << >>
    /\ df_sentiment_label = << >>
    /\ df_sentiment_score = << >>
    /\ sa_calls = << >>
    /\ sa_outcome = << >>
    /\ sa_used = << >>
    /\ pl_pc = "start"
    /\ pl_df = << >>
    /\ pl_theme_analysis = << >>
    /\ pl_results = << >>
    /\ pl_written = << >>
    /\ pl_trace = << >>

\* the pipeline before a run on one of the input files of the model
PlInit ==
    /\ PlConstructed
    /\ pl_file \in Files

PlIdle ==
    /\ pl_pc = "unused"
    /\ pl_file = Unreadable
    /\ pl_df = << >>
    /\ pl_theme_analysis = << >>
    /\ pl_results = << >>
    /\ pl_written = << >>
    /\ pl_trace = << >>

\* load_data swallowing the error and going on with no rows
load_data_Swallows ==
    /\ pl_pc = "start"
    /\ pl_df' = pl_file.rows
    /\ pl_pc' = "loaded"
    /\ UNCHANGED << pl_file, pl_theme_analysis, pl_results, pl_written, pl_trace >>
    /\ UNCHANGED taVars
    /\ UNCHANGED plOthers

\* line 45, load_data (lines 27-37): the rows of the file, or the error of
\* pd.read_csv raised again, which leaves run_complete_analysis
load_data ==
    /\ pl_pc = "start"
    /\ IF pl_file.readable
       THEN pl_pc' = "loaded" /\ pl_df' = pl_file.rows
       ELSE pl_pc' = "raised" /\ pl_df' = pl_df
    /\ UNCHANGED << pl_file, pl_theme_analysis, pl_results, pl_written, pl_trace >>
    /\ UNCHANGED taVars
    /\ UNCHANGED plOthers

\* line 49, step 1: text preprocessing
step1_preprocessing ==
    /\ pl_pc = "loaded"
    /\ pl_df' = preprocess_dataframe(pl_df)
    /\ pl_trace' = pl_trace \o RowEvents("normalize", [i \in 1..Len(pl_df) |-> i])
    /\ pl_pc' = "preprocessed"
    /\ UNCHANGED << pl_file, pl_theme_analysis, pl_results, pl_written >>
    /\ UNCHANGED taVars
    /\ UNCHANGED plOthers

\* line 53, step 2: sentiment analysis; an exception of analyze_dataframe
\* leaves run_complete_analysis
step2_sentiment ==
    /\ pl_pc = "preprocessed"
    /\ \E outs \in [1..Len(pl_df) ->
                      UNION { RunClassifyOne(model_loaded, use_textblob, pl_df[i].processed_text) :
                                 i \in 1..Len(pl_df) }] :
          /\ \A i \in 1..Len(pl_df) :
                outs[i] \in RunClassifyOne(model_loaded, use_textblob, pl_df[i].processed_text)
          /\ \E r \in { analyze_dataframe(pl_df, outs) } :
                IF r.raises
                THEN /\ pl_pc' = "raised"
                     /\ UNCHANGED << pl_df, pl_trace >>
                ELSE /\ pl_pc' = "sentiment"
                     /\ pl_df' = r.value
                     /\ pl_trace' = pl_trace \o RowEvents("sentiment", [i \in 1..Len(pl_df) |-> i])
    /\ UNCHANGED << pl_file, pl_theme_analysis, pl_results, pl_written >>
    /\ UNCHANGED taVars
    /\ UNCHANGED plOthers

\* line 57, step 3: thematic analysis by bank
step3_thematic ==
    /\ pl_pc = "sentiment"
    /\ \E r \in { analyze_themes_by_bank(theme_keywords, vectorizer, pl_df) } :
          /\ vectorizer' = r.vectorizer
          /\ IF r.raises
             THEN /\ pl_pc' = "raised"
                  /\ UNCHANGED << pl_theme_analysis, pl_trace >>
             ELSE /\ pl_pc' = "analysed"
                  /\ pl_theme_analysis' = r.value
                  /\ pl_trace' = pl_trace \o ThemeAnalysisEvents(pl_df)
    /\ UNCHANGED << pl_file, pl_df, pl_results, pl_written, theme_keywords >>
    /\ UNCHANGED plOthers

\* line 61: the themes are added to the dataframe
add_themes ==
    /\ pl_pc = "analysed"
    /\ pl_df' = AttachThemes(theme_keywords, pl_df)
    /\ pl_trace' = pl_trace \o RowEvents("themes", [i \in 1..Len(pl_df) |-> i])
    /\ pl_pc' = "annotated"
    /\ UNCHANGED << pl_file, pl_theme_analysis, pl_results, pl_written >>
    /\ UNCHANGED taVars
    /\ UNCHANGED plOthers

\* lines 66-81, step 4: the reports, self.results, the files, the return
\* (the timestamp of the results is left out); the main analysis file is
\* data/processed/sentiment_themes_analysis.csv, the file an InsightsAnalyzer reads
step4_reports_and_save ==
    /\ pl_pc = "annotated"
    /\ pl_results' = << [dataframe |-> pl_df,
                         sentiment_report |-> generate_sentiment_report(pl_df),
                         theme_analysis |-> pl_theme_analysis] >>
    /\ pl_written' = << save_results(pl_df, pl_theme_analysis) >>
    /\ in_file' = [readable |-> TRUE, rows |-> read_csv(main_analysis_df(pl_df))]
    /\ pl_pc' = "returned"
    /\ UNCHANGED << pl_file, pl_df, pl_theme_analysis, pl_trace >>
    /\ UNCHANGED taVars
    /\ UNCHANGED << saVars, clVars, thVars, parVars, in_pc, in_df, in_report, extVars >>

\* main (lines 147-167): it returns the results, or None after an exception
main_return ==
    /\ pl_pc \in { "returned", "raised" }
    /\ pl_pc' = IF pl_pc = "returned" THEN "main_results" ELSE "main_none"
    /\ UNCHANGED << pl_file, pl_df, pl_theme_analysis, pl_results, pl_written, pl_trace >>
    /\ UNCHANGED taVars
    /\ UNCHANGED plOthers

PlNext ==
    \/ load_data
    \/ step1_preprocessing
    \/ step2_sentiment
    \/ step3_thematic
    \/ add_themes
    \/ step4_reports_and_save
    \/ main_return

----------------------------------------------------------------------------
(* InsightsAnalyzer (src/insights/analyzer.py) *)

\* the places of the separators in s, with the place before s and the place after it
SeparatorPlaces(s, sep) ==
    << 0 >> \o SelectSeq([i \in 1..Len(s) |-> i], LAMBDA i : s[i] = sep) \o << Len(s) + 1 >>

\* str.split(sep), sep one character: the pieces between the separators, empty ones kept
SplitOn(s, sep) ==
    [k \in 1..(Len(SeparatorPlaces(s, sep)) - 1) |->
        SubSeq(s, SeparatorPlaces(s, sep)[k] + 1, SeparatorPlaces(s, sep)[k + 1] - 1)]

\* the pieces taken as they are, not stripped
theme_list_NoStrip(themes) ==
    SelectSeq(SplitOn(themes, ","), LAMBDA t : t # NoThemes)

\* lines 86, 113, 148: [t.strip() for t in str(themes).split(',') if t.strip() != 'No themes']
theme_list(themes) ==
    SelectSeq([i \in 1..Len(SplitOn(themes, ",")) |-> strip(SplitOn(themes, ",")[i])],
              LAMBDA t : t # NoThemes)

\* lines 84-87, 111-114, 146-149: the themes of the cells of the rows that
\* are not missing (dropna), one list after the other
all_themes(rows) ==
    Flatten([i \in 1..Len(SelectSeq(rows, LAMBDA r : r.identified_themes # NaN)) |->
                theme_list(SelectSeq(rows, LAMBDA r : r.identified_themes # NaN)[i].identified_themes)])

\* pd.Series(themes).value_counts(): the pairs << theme, count >> by count
\* descending; the values come in the order of their first occurrence and
\* the sort of so few counts keeps that order among equal counts
theme_counts(themes) == most_common(themes)

\* no selection by label: every row
LabelRows_AnyLabel(rows, label) == rows

\* the rows with a sentiment label
LabelRows(rows, label) == SelectSeq(rows, LAMBDA r : r.sentiment_label = label)

\* lines 66-72: the entry of one bank (a percentage is << count, total >>)
SentimentEntry(bank_data) ==
    [total_reviews |-> Len(bank_data),
     avg_rating |-> Mean(Column(bank_data, "rating")),
     positive_pct |-> << Len(LabelRows(bank_data, "POSITIVE")), Len(bank_data) >>,
     avg_sentiment_score |-> Mean(Column(bank_data, "sentiment_score")),
     rating_distribution |-> value_counts(Column(bank_data, "rating"))]

\* analyze_sentiment_by_bank (lines 59-74)
analyze_sentiment_by_bank(df) ==
    [bank \in ValuesOf(df, "bank") |-> SentimentEntry(BankRows(df, bank))]

\* lines 91-95: the entry of one bank; top_themes is the dict of the first
\* five counts, as its items in order
ThemeEntry(bank_data) ==
    [total_theme_mentions |-> Len(all_themes(bank_data)),
     unique_themes |-> Len(theme_counts(all_themes(bank_data))),
     top_themes |-> Take(theme_counts(all_themes(bank_data)), 5)]

\* analyze_themes_by_bank (lines 76-97)
insights_themes_by_bank(df) ==
    [bank \in ValuesOf(df, "bank") |-> ThemeEntry(BankRows(df, bank))]

\* the entry of one bank with every theme count, none cut off
LabelEntry_NoCutOff(bank_data, label) ==
    IF Len(LabelRows(bank_data, label)) > 0
    THEN [review_count |-> Len(LabelRows(bank_data, label)),
          percentage |-> << Len(LabelRows(bank_data, label)), Len(bank_data) >>,
          top |-> theme_counts(all_themes(LabelRows(bank_data, label))),
          avg_rating |-> Mean(Column(LabelRows(bank_data, label), "rating"))]
    ELSE [review_count |-> 0, percentage |-> << 0, 1 >>, top |-> << >>, avg_rating |-> None]

\* lines 107-130 and 142-165: the entry of one bank for the reviews of one
\* label; top is the dict of the first three counts, as its items in order
LabelEntry(bank_data, label) ==
    IF Len(LabelRows(bank_data, label)) > 0
    THEN [review_count |-> Len(LabelRows(bank_data, label)),
          percentage |-> << Len(LabelRows(bank_data, label)), Len(bank_data) >>,
          top |-> Take(theme_counts(all_themes(LabelRows(bank_data, label))), 3),
          avg_rating |-> Mean(Column(LabelRows(bank_data, label), "rating"))]
    ELSE [review_count |-> 0, percentage |-> << 0, 1 >>, top |-> << >>, avg_rating |-> None]

\* pain points without the selection of the bank's rows
identify_pain_points_AllBanks(df) ==
    [bank \in ValuesOf(df, "bank") |-> LabelEntry(df, "NEGATIVE")]

\* identify_pain_points (lines 99-132)
identify_pain_points(df) ==
    [bank \in ValuesOf(df, "bank") |-> LabelEntry(BankRows(df, bank), "NEGATIVE")]

\* identify_drivers (lines 134-167)
identify_drivers(df) ==
    [bank \in ValuesOf(df, "bank") |-> LabelEntry(BankRows(df, bank), "POSITIVE")]

\* a transaction recommendation for every pain point, whatever its theme
PainRecommendation_AnyTheme(item) ==
    << [priority |-> "HIGH", area |-> "Transactions",
        recommendation |-> "Optimize transaction processing speed and reliability",
        rationale |-> << item[2], " negative reviews mention transaction issues" >>] >>

\* lines 183-203: what one item << theme, count >> of top_pain_points appends
\* (the rationale f'{count} ...' is the count and the text after it)
PainRecommendation(item) ==
    IF item[1] = ThemeText.TRANSACTIONS
    THEN << [priority |-> "HIGH", area |-> "Transactions",
             recommendation |-> "Optimize transaction processing speed and reliability",
             rationale |-> << item[2], " negative reviews mention transaction issues" >>] >>
    ELSE IF item[1] = ThemeText.APP_PERFORMANCE
    THEN << [priority |-> "HIGH", area |-> "App Performance",
             recommendation |-> "Improve app loading times and reduce crashes",
             rationale |-> << item[2], " negative reviews mention performance issues" >>] >>
    ELSE IF item[1] = ThemeText.RELIABILITY_ISSUES
    THEN << [priority |-> "HIGH", area |-> "Reliability",
             recommendation |-> "Address app crashes and error messages",
             rationale |-> << item[2], " negative reviews mention reliability problems" >>] >>
    ELSE << >>

\* lines 208-214: what one item << theme, count >> of top_drivers appends
DriverRecommendation(item) ==
    IF item[1] = ThemeText.APP_PERFORMANCE
    THEN << [priority |-> "MEDIUM", area |-> "Performance Maintenance",
             recommendation |-> "Continue optimizing app performance as it is a key strength",
             rationale |-> << item[2], " positive reviews highlight good performance" >>] >>
    ELSE << >>

\* lines 178-216: bank_recs, from the items of the two dicts in their order
bank_recs(top_pain_points, top_drivers) ==
    Flatten([k \in 1..Len(top_pain_points) |-> PainRecommendation(top_pain_points[k])])
    \o Flatten([k \in 1..Len(top_drivers) |-> DriverRecommendation(top_drivers[k])])

\* generate_recommendations (lines 169-218)
generate_recommendations(df) ==
    [bank \in ValuesOf(df, "bank") |->
        bank_recs(identify_pain_points(df)[bank].top, identify_drivers(df)[bank].top)]

\* reviews_per_bank.std() / reviews_per_bank.mean() > 0.3 (line 259), std
\* with n - 1 in the denominator: NaN, so not greater, for fewer than two banks
UnevenSamples(df) ==
    /\ Cardinality(ValuesOf(df, "bank")) >= 2
    /\ 100 * SumOver([bank \in ValuesOf(df, "bank") |->
                         (Cardinality(ValuesOf(df, "bank")) * Len(BankRows(df, bank)) - Len(df))
                       * (Cardinality(ValuesOf(df, "bank")) * Len(BankRows(df, bank)) - Len(df))],
                     ValuesOf(df, "bank"))
       > 9 * (Cardinality(ValuesOf(df, "bank")) - 1) * Len(df) * Len(df)

\* the considerations with "at least" in place of "greater than"
identify_ethical_considerations_AtLeast(df) ==
    (IF Len(LabelRows(df, "NEGATIVE")) * 100 >= 70 * Len(df)
     THEN << "High negative bias" >> ELSE << >>)
    \o (IF \/ Count(Column(df, "rating"), 1) * 10 >= 4 * Len(df)
           \/ Count(Column(df, "rating"), 5) * 10 >= 4 * Len(df)
        THEN << "Polarized ratings" >> ELSE << >>)
    \o (IF UnevenSamples(df) THEN << "Uneven sample sizes" >> ELSE << >>)

\* identify_ethical_considerations (lines 243-262): the considerations appended, by kind
identify_ethical_considerations(df) ==
    (IF Len(LabelRows(df, "NEGATIVE")) * 100 > 70 * Len(df)
     THEN << "High negative bias" >> ELSE << >>)
    \o (IF \/ Count(Column(df, "rating"), 1) * 10 > 4 * Len(df)
           \/ Count(Column(df, "rating"), 5) * 10 > 4 * Len(df)
        THEN << "Polarized ratings" >> ELSE << >>)
    \o (IF UnevenSamples(df) THEN << "Uneven sample sizes" >> ELSE << >>)

\* the report of generate_insights_report (lines 226-239)
insights_report(df) ==
    [summary_statistics |->
        [total_reviews |-> Len(df),
         banks_analyzed |-> Cardinality(ValuesOf(df, "bank")),
         overall_positive_pct |-> << Len(LabelRows(df, "POSITIVE")), Len(df) >>,
         overall_avg_rating |-> Mean(Column(df, "rating"))],
     sentiment_analysis |-> analyze_sentiment_by_bank(df),
     theme_analysis |-> insights_themes_by_bank(df),
     pain_points |-> identify_pain_points(df),
     drivers |-> identify_drivers(df),
     recommendations |-> generate_recommendations(df),
     ethical_considerations |-> identify_ethical_considerations(df)]

\* a row of sentiment_themes_analysis.csv as save_results of the pipeline
\* writes it (main_pipeline.py lines 89-98); written_themes is history: the
\* theme list the cell identified_themes was written from
AnalysisRow(bank, rating, label, score, themes) ==
    [bank |-> bank, rating |-> rating, sentiment_label |-> label, sentiment_score |-> score,
     identified_themes |-> identified_themes(themes), written_themes |-> themes]

\* the rows the analysis files of the model are made of
AnalysisRows ==
    { AnalysisRow("A", 1, "NEGATIVE", 19, << "TRANSACTIONS", "APP_PERFORMANCE", "RELIABILITY_ISSUES" >>),
      AnalysisRow("A", 2, "NEGATIVE", 19, << "USER_INTERFACE" >>),
      AnalysisRow("A", 1, "NEGATIVE", 12, << "APP_PERFORMANCE" >>),
      AnalysisRow("A", 5, "POSITIVE", 19, << "APP_PERFORMANCE" >>),
      AnalysisRow("A", 3, "NEUTRAL", 10, << "TRANSACTIONS" >>),
      AnalysisRow("B", 1, "NEGATIVE", 19, << "TRANSACTIONS" >>),
      AnalysisRow("B", 5, "POSITIVE", 12, << >>) }

\* the most rows of an analysis file
MaxAnalysisRows == 2

AnalysisFiles ==
    { Unreadable } \cup
    { [readable |-> TRUE, rows |-> rows] :
        rows \in UNION { [1..n -> AnalysisRows] : n \in 0..MaxAnalysisRows } }

\* __init__ (lines 18-47): data_path names the file, self.df = None
InInit ==
    /\ in_pc = "start"
    /\ in_file \in AnalysisFiles
    /\ in_df = << >>
    /\ in_report = << >>

\* load_data (lines 49-57): True with self.df read, or False when reading raised
insights_load_data ==
    /\ in_pc = "start"
    /\ in_pc' = IF in_file.readable THEN "loaded" ELSE "failed"
    /\ in_df' = IF in_file.readable THEN in_file.rows ELSE in_df
    /\ UNCHANGED << in_file, in_report >>
    /\ UNCHANGED inOthers

\* generate_insights_report (lines 220-241): loads the data when self.df is
\* None and returns {} when that fails, else the report on self.df
generate_insights_report ==
    /\ in_pc \in { "start", "failed", "loaded" }
    /\ IF in_pc # "loaded" /\ ~in_file.readable
       THEN /\ in_pc' = "no_report"
            /\ UNCHANGED << in_df, in_report >>
       ELSE /\ in_pc' = "reported"
            /\ in_df' = IF in_pc = "loaded" THEN in_df ELSE in_file.rows
            /\ in_report' = insights_report(in_df')
    /\ UNCHANGED in_file
    /\ UNCHANGED inOthers

InNext ==
    \/ insights_load_data
    \/ generate_insights_report

\* the most rows of a data set the considerations are computed on
MaxEthicsRows == 10

\* a data set of n rows with the columns identify_ethical_considerations
\* reads: neg rows NEGATIVE, ones rows of 1 star, fives rows of 5 stars, a rows of bank A
EthicsFrame(n, neg, ones, fives, a) ==
    [i \in 1..n |->
        [bank |-> IF i <= a THEN "A" ELSE "B",
         rating |-> IF i <= ones THEN 1 ELSE IF i > n - fives THEN 5 ELSE 3,
         sentiment_label |-> IF i <= neg THEN "NEGATIVE" ELSE "POSITIVE"]]

EthicsFrames ==
    { EthicsFrame(c[1], c[2], c[3], c[4], c[5]) :
        c \in { c \in (0..MaxEthicsRows) \X (0..MaxEthicsRows) \X (0..MaxEthicsRows)
                      \X (0..MaxEthicsRows) \X (0..MaxEthicsRows) :
                  c[2] <= c[1] /\ c[3] + c[4] <= c[1] /\ c[5] <= c[1] } }

\* an analyzer whose self.df is loaded, before identify_ethical_considerations is called
EthicsInit ==
    /\ in_pc = "loaded"
    /\ in_df \in EthicsFrames
    /\ in_file = [readable |-> TRUE, rows |-> in_df]
    /\ in_report = << >>

\* the call identify_ethical_considerations() (lines 243-262): it returns the list
identify_ethical_considerations_call ==
    /\ in_pc = "loaded"
    /\ in_report' = identify_ethical_considerations(in_df)
    /\ in_pc' = "considered"
    /\ UNCHANGED << in_file, in_df >>
    /\ UNCHANGED inOthers

EthicsNext ==
    \/ identify_ethical_considerations_call

\* the input files of the runs followed by the insights analysis: three
\* reviews of bank A, "Great transfer speed!", "Login keeps failing" and
\* "Crashes during transfer", and the first two of them alone
EndToEndRows ==
    << [bank |-> "A", rating |-> 5, review_cleaned |-> << "G", "r", "e", "a", "t", " ", "t", "r", "a", "n", "s", "f", "e", "r", " ", "s", "p", "e", "e", "d", "!" >>],
       [bank |-> "A", rating |-> 1, review_cleaned |-> << "L", "o", "g", "i", "n", " ", "k", "e", "e", "p", "s", " ", "f", "a", "i", "l", "i", "n", "g" >>],
       [bank |-> "A", rating |-> 2, review_cleaned |-> << "C", "r", "a", "s", "h", "e", "s", " ", "d", "u", "r", "i", "n", "g", " ", "t", "r", "a", "n", "s", "f", "e", "r" >>] >>

EndToEndFiles ==
    { [readable |-> TRUE, rows |-> EndToEndRows],
      [readable |-> TRUE, rows |-> SubSeq(EndToEndRows, 1, 2)] }

\* a pipeline before its run and an InsightsAnalyzer on the file the run
\* will write, data/processed/sentiment_themes_analysis.csv, not there yet
EndToEndInit ==
    /\ PlConstructed
    /\ pl_file \in EndToEndFiles
    /\ in_pc = "start"
    /\ in_file = Unreadable
    /\ in_df = << >>
    /\ in_report = << >>

EndToEndNext ==
    \/ load_data
    \/ step1_preprocessing
    \/ step2_sentiment
    \/ step3_thematic
    \/ add_themes
    \/ step4_reports_and_save
    \/ main_return
    \/ insights_load_data
    \/ generate_insights_report

\* what classify_review_themes can return: the themes of any set, in the order of the taxonomy
ClassifierOutputs ==
    { SelectSeq(Themes(initialize_theme_keywords), LAMBDA t : t \in S) :
        S \in SUBSET SeqToSet(Themes(initialize_theme_keywords)) }

\* the analysis files of one record, written from each of these theme lists
ThemeFieldFiles ==
    { [readable |-> TRUE,
       rows |-> << [AnalysisRow("A", 1, "NEGATIVE", 19, x) EXCEPT !.identified_themes = csv_text(@)] >>] :
        x \in ClassifierOutputs }

\* an InsightsAnalyzer on one of these files
ThemeFieldInit ==
    /\ in_pc = "start"
    /\ in_file \in ThemeFieldFiles
    /\ in_df = << >>
    /\ in_report = << >>

\* an InsightsAnalyzer that is not used
InIdle ==
    /\ in_pc = "unused"
    /\ in_file = Unreadable
    /\ in_df = << >>
    /\ in_report = << >>

----------------------------------------------------------------------------
(* TextPreprocessor called on one text *)

\* the pieces the argument texts are made of
TextPieces ==
    { << "h", "t" >>, << "t", "p" >>, << "x" >>, << "A" >>, << "1" >>, << " " >>,
      << "@" >>, << "#" >>, << "_" >>, << "!" >> }

\* the most pieces of an argument text
MaxTextPieces == 4

\* the arguments: the texts of up to MaxTextPieces pieces, NaN and None
PreprocessorInputs ==
    { NaN, None } \cup
    { Flatten(q) : q \in UNION { [1..n -> TextPieces] : n \in 0..MaxTextPieces } }

\* before the cell of one row is cleaned
TpInit ==
    /\ tp_pc = "call"
    /\ tp_text \in PreprocessorInputs
    /\ tp_processed = << >>
    /\ tp_tokens = << >>

\* a TextPreprocessor that is not used
TpIdle ==
    /\ tp_pc = "unused"
    /\ tp_text = << >>
    /\ tp_processed = << >>
    /\ tp_tokens = << >>

\* line 61 of preprocess_dataframe: processed_text = clean_text(text)
clean_text_call ==
    /\ tp_pc = "call"
    /\ tp_processed' = clean_text(tp_text)
    /\ tp_pc' = "cleaned"
    /\ UNCHANGED << tp_text, tp_tokens >>
    /\ UNCHANGED tpOthers

\* line 64 of preprocess_dataframe: tokens = tokenize_text(processed_text),
\* which cleans its argument again (line 44)
tokenize_text_call ==
    /\ tp_pc = "cleaned"
    /\ tp_tokens' = tokenize_text(tp_processed)
    /\ tp_pc' = "tokenized"
    /\ UNCHANGED << tp_text, tp_processed >>
    /\ UNCHANGED tpOthers

TpNext ==
    \/ clean_text_call
    \/ tokenize_text_call

----------------------------------------------------------------------------
(* SentimentAnalyzer.analyze_sentiment_textblob called on one text *)

\* the texts of a call
FallbackTexts ==
    { << >>, << " " >>, << "o", "k" >>, << " ", "n", "o" >>, << "b", "a", "d" >>, NaN }

\* every polarity from -1.0 to 1.0, in tenths
PolarityRange == -10..10

\* what TextBlob(text).sentiment.polarity may do on `text`, over PolarityRange
PolarityOutcomes(text) ==
    IF ~IsStr(text) THEN { [raises |-> TRUE, polarity |-> 0] }
    ELSE { [raises |-> TRUE, polarity |-> 0] } \cup
         [raises : {FALSE},
          polarity : IF strip(text) = << >> THEN {0} ELSE PolarityRange]

FbInit ==
    /\ fb_pc = "ready"
    /\ fb_text \in FallbackTexts
    /\ fb_out \in PolarityOutcomes(fb_text)
    /\ fb_result = << >>

\* no call of the fallback on its own
FbIdle ==
    /\ fb_pc = "unused"
    /\ fb_text = << >>
    /\ fb_out = [raises |-> TRUE, polarity |-> 0]
    /\ fb_result = << >>

\* analyze_sentiment_textblob(text) (lines 68-80)
analyze_sentiment_textblob_call ==
    /\ fb_pc = "ready"
    /\ \E r \in { analyze_sentiment_textblob(fb_text, fb_out) } :
          /\ fb_pc' = IF r.kind = "return" THEN "returned" ELSE "raised"
          /\ fb_result' = IF r.kind = "return" THEN << r.label, r.score >> ELSE << >>
    /\ UNCHANGED << fb_text, fb_out >>
    /\ UNCHANGED fbOthers

FbNext ==
    \/ analyze_sentiment_textblob_call

----------------------------------------------------------------------------
(* ReviewPreprocessor (src/data_collection/preprocessing.py) *)

\* a cell of a numeric column: a number, or NaN where the value is missing
Number(v) == [nan |-> FALSE, value |-> v]
NumberNaN == [nan |-> TRUE, value |-> 0]

\* Series.between(left, right): both ends included, False for NaN
between(x, left, right) == ~x.nan /\ left <= x.value /\ x.value <= right

\* a row of the raw file
RawRow(review, rating, date, bank, source) ==
    [review |-> review, rating |-> rating, date |-> date, bank |-> bank, source |-> source]

\* datetime.now().strftime('%Y-%m-%d') and 'Google Play Store' (lines 67-68)
Today == << "2", "0", "2", "6", "-", "1", "1", "-", "0", "2" >>
DefaultSource == << "G", "o", "o", "g", "l", "e", " ", "P", "l", "a", "y", " ", "S", "t", "o", "r", "e" >>

\* pd.to_datetime of the date texts of the model: year and month, or no date
ToDatetime ==
    { [text |-> << "2", "0", "2", "4", "-", "0", "1", "-", "0", "5" >>, year |-> 2024, month |-> 1],
      [text |-> Today, year |-> 2026, month |-> 11] }

\* the rows the raw files of the model are made of
RawRows ==
    { RawRow(<< "g", "o", "o", "d", " ", "a", "p", "p" >>, Number(5), << "2", "0", "2", "4", "-", "0", "1", "-", "0", "5" >>, << "A" >>, DefaultSource),
      RawRow(<< "g", "o", "o", "d", " ", "a", "p", "p" >>, Number(0), << "2", "0", "2", "4", "-", "0", "1", "-", "0", "5" >>, << "B" >>, NaN),
      RawRow(<< "b", "a", "d" >>, Number(6), NaN, << "A" >>, DefaultSource),
      RawRow(<< " ", " " >>, Number(3), << "2", "0", "2", "4", "-", "0", "1", "-", "0", "5" >>, << "A" >>, DefaultSource),
      RawRow(NaN, Number(2), << "2", "0", "2", "4", "-", "0", "1", "-", "0", "5" >>, << "B" >>, DefaultSource),
      RawRow(<< "s", "l", "o", "w" >>, NumberNaN, << "2", "0", "2", "4", "-", "0", "1", "-", "0", "5" >>, << "A" >>, DefaultSource),
      RawRow(<< "o", "k", " ", " ", "a", "p", "p", " " >>, Number(1), << "s", "o", "o", "n" >>, NaN, DefaultSource),
      RawRow(<< "o", "k", " ", " ", "a", "p", "p", " " >>, Number(1), << "s", "o", "o", "n" >>, << "B" >>, DefaultSource) }

\* the most rows of a raw file
MaxRawRows == 2

RawFiles ==
    { Unreadable } \cup
    { [readable |-> TRUE, rows |-> rows] :
        rows \in UNION { [1..n -> RawRows] : n \in 0..MaxRawRows } }

\* no file at output_path
NotSaved == [written |-> FALSE, rows |-> << >>]

NoStats ==
    [original_count |-> 0, duplicates_removed |-> 0, missing_handled |-> 0,
     empty_reviews_removed |-> 0, final_count |-> 0, data_quality |-> << 0, 0 >>]

\* __init__ (lines 22-27)
RpInit ==
    /\ rp_pc = "start"
    /\ rp_file \in RawFiles
    /\ rp_df = << >>
    /\ rp_stats = NoStats
    /\ rp_saved = NotSaved

\* a ReviewPreprocessor that is not used
RpIdle ==
    /\ rp_pc = "unused"
    /\ rp_file = Unreadable
    /\ rp_df = << >>
    /\ rp_stats = NoStats
    /\ rp_saved = NotSaved

\* df.isnull().sum().sum(): the missing cells
MissingCells(df) ==
    Cardinality({ c \in (1..Len(df)) \X { "review", "date", "bank", "source" } : df[c[1]][c[2]] = NaN })
    + Cardinality({ i \in 1..Len(df) : df[i].rating.nan })

\* load_data (lines 29-39) in process (lines 197-198): False ends process
rp_load_data ==
    /\ rp_pc = "start"
    /\ IF rp_file.readable
       THEN /\ rp_df' = rp_file.rows
            /\ rp_stats' = [rp_stats EXCEPT !.original_count = Len(rp_file.rows)]
            /\ rp_pc' = "loaded"
       ELSE /\ rp_pc' = "failed"
            /\ UNCHANGED << rp_df, rp_stats >>
    /\ UNCHANGED << rp_file, rp_saved >>
    /\ UNCHANGED rpOthers

\* drop_duplicates(subset=['review'], keep='first'): the first row of every review
DropDuplicates(df) ==
    SelectSeq([i \in 1..Len(df) |-> [row |-> df[i], first |-> \A j \in 1..(i - 1) : df[j].review # df[i].review]],
              LAMBDA e : e.first)

\* remove_duplicates (lines 41-49)
remove_duplicates ==
    /\ rp_pc = "loaded"
    /\ rp_df' = [k \in 1..Len(DropDuplicates(rp_df)) |-> DropDuplicates(rp_df)[k].row]
    /\ rp_stats' = [rp_stats EXCEPT !.duplicates_removed = Len(rp_df) - Len(rp_df')]
    /\ rp_pc' = "deduplicated"
    /\ UNCHANGED << rp_file, rp_saved >>
    /\ UNCHANGED rpOthers

\* lines 63-68: the rows with review, rating and bank, date and source filled
FillMissing(df) ==
    [k \in 1..Len(SelectSeq(df, LAMBDA r : r.review # NaN /\ ~r.rating.nan /\ r.bank # NaN)) |->
        [SelectSeq(df, LAMBDA r : r.review # NaN /\ ~r.rating.nan /\ r.bank # NaN)[k]
            EXCEPT !.date = IF @ = NaN THEN Today ELSE @,
                   !.source = IF @ = NaN THEN DefaultSource ELSE @]]

\* handle_missing_data (lines 51-77)
handle_missing_data ==
    /\ rp_pc = "deduplicated"
    /\ rp_df' = FillMissing(rp_df)
    /\ rp_stats' = [rp_stats EXCEPT !.missing_handled = MissingCells(rp_df) - MissingCells(rp_df')]
    /\ rp_pc' = "filled"
    /\ UNCHANGED << rp_file, rp_saved >>
    /\ UNCHANGED rpOthers

\* the entry of ToDatetime of a date text
DateOf(text) == CHOOSE d \in ToDatetime : d.text = text

\* normalize_dates (lines 79-93): with a date that pd.to_datetime cannot
\* read, the exception is caught and the data stay as they are
normalize_dates ==
    /\ rp_pc = "filled"
    /\ rp_df' = IF \A i \in 1..Len(rp_df) : \E d \in ToDatetime : d.text = rp_df[i].date
                THEN [i \in 1..Len(rp_df) |->
                        [review |-> rp_df[i].review, rating |-> rp_df[i].rating,
                         date |-> DateOf(rp_df[i].date).text, bank |-> rp_df[i].bank,
                         source |-> rp_df[i].source,
                         review_year |-> DateOf(rp_df[i].date).year,
                         review_month |-> DateOf(rp_df[i].date).month]]
                ELSE rp_df
    /\ rp_pc' = "dated"
    /\ UNCHANGED << rp_file, rp_stats, rp_saved >>
    /\ UNCHANGED rpOthers

\* clean_text_content (lines 99-109)
clean_text_content(text) ==
    IF text = NaN THEN << >> ELSE strip(CollapseWhitespace(text))

\* clean_text (lines 95-124): review_cleaned added, the rows with an empty one removed
rp_clean_text ==
    /\ rp_pc = "dated"
    /\ rp_df' = SelectSeq([i \in 1..Len(rp_df) |->
                              rp_df[i] @@ [review_cleaned |-> clean_text_content(rp_df[i].review)]],
                          LAMBDA r : Len(r.review_cleaned) > 0)
    /\ rp_stats' = [rp_stats EXCEPT !.empty_reviews_removed = Len(rp_df) - Len(rp_df')]
    /\ rp_pc' = "cleaned"
    /\ UNCHANGED << rp_file, rp_saved >>
    /\ UNCHANGED rpOthers

\* validate_data keeping every rating
ValidRatings_KeepsAll(df) == df

\* line 134: self.df[self.df['rating'].between(1, 5)]
ValidRatings(df) == SelectSeq(df, LAMBDA r : between(r.rating, 1, 5))

\* validate_data (lines 126-144); data_quality is << missing cells, cells >>
validate_data ==
    /\ rp_pc = "cleaned"
    /\ rp_df' = ValidRatings(rp_df)
    /\ rp_stats' = [rp_stats EXCEPT !.final_count = Len(rp_df'),
                                    !.data_quality = << MissingCells(rp_df'), Len(rp_df') >>]
    /\ rp_pc' = "validated"
    /\ UNCHANGED << rp_file, rp_saved >>
    /\ UNCHANGED rpOthers

\* save_data (lines 146-157) and generate_report, which prints; process returns True
save_data ==
    /\ rp_pc = "validated"
    /\ rp_saved' = [written |-> TRUE, rows |-> rp_df]
    /\ rp_pc' = "done"
    /\ UNCHANGED << rp_file, rp_df, rp_stats >>
    /\ UNCHANGED rpOthers

RpNext ==
    \/ rp_load_data
    \/ remove_duplicates
    \/ handle_missing_data
    \/ normalize_dates
    \/ rp_clean_text
    \/ validate_data
    \/ save_data

----------------------------------------------------------------------------
(* DatabaseManager (src/database/db_manager.py) *)

\* review['review_text'][:10000] (line 112)
TextLimit == 10000

\* a record of reviews_data, with the keys insert_reviews reads
Review(bank, review_text, rating, label, score) ==
    [bank |-> bank, review_text |-> review_text, rating |-> rating, date |-> "2024-01-05",
     sentiment_label |-> label, sentiment_score |-> score]

\* the records the calls and the files are made of: two of known banks, one
\* of a bank without a row in banks, and two whose text cell read_csv gave as NaN
Reviews ==
    { Review("A", << "o", "k" >>, 5, "POSITIVE", 19),
      Review("B", << "b", "a", "d" >>, 1, "NEGATIVE", 19),
      Review("C", << "o", "k" >>, 4, "POSITIVE", 12),
      Review("A", NaN, 3, "NEUTRAL", 10),
      Review("C", NaN, 3, "NEUTRAL", 10) }

\* the most records of a call or of a file
MaxReviews == 2

ReviewLists == UNION { [1..n -> Reviews] : n \in 0..MaxReviews }

\* the most rows the table reviews holds before a call
MaxStored == 2

\* banks_info (lines 144-148)
banks_info == { "A", "B" }

\* bank_id of the row of a bank in banks
BankId == [A |-> 1, B |-> 2, C |-> 3]

\* {name: bank_id for bank_id, name in bank_rows} (line 161)
BankMapping(names) == [name \in names |-> BankId[name]]

BankMappings == { BankMapping(names) : names \in { { }, { "A" }, { "A", "B" } } }

\* what the server does in a call: the batch fails at a row (0: at none), the
\* commit raises, the insertion of the banks fails
ServerOutcomes == [fails_at : 0..MaxReviews, commit_raises : BOOLEAN, banks_fail : BOOLEAN]

\* lines 110-118: the tuple of one review
PreparedRow(review, bank_mapping) ==
    [bank_id |-> bank_mapping[review.bank],
     review_text |-> Take(review.review_text, TextLimit),
     rating |-> review.rating,
     review_date |-> review.date,
     sentiment_label |-> review.sentiment_label,
     sentiment_score |-> review.sentiment_score,
     source |-> "Google Play Store"]

\* lines 106-118: prepared_data
prepared_data(reviews_data, bank_mapping) ==
    [k \in 1..Len(SelectSeq(reviews_data, LAMBDA r : r.bank \in DOMAIN bank_mapping)) |->
        PreparedRow(SelectSeq(reviews_data, LAMBDA r : r.bank \in DOMAIN bank_mapping)[k], bank_mapping)]

\* line 112 raises TypeError on a review_text that is no str (NaN is a float)
\* when the bank of the review is in bank_mapping
PreparationRaises(reviews_data, bank_mapping) ==
    \E i \in 1..Len(reviews_data) :
        reviews_data[i].bank \in DOMAIN bank_mapping /\ ~IsStr(reviews_data[i].review_text)

DbReturns(value, stored) == [kind |-> "return", value |-> value, stored |-> stored]
DbRaises(stored) == [kind |-> "raise", value |-> 0, stored |-> stored]

\* insert_reviews(reviews_data, bank_mapping) (lines 92-132) with self.conn in
\* state conn and the rows `stored` in reviews, the server doing `out`:
\*   self.conn None: 0 is returned (lines 94-96);
\*   the preparation, which is outside the try, raises: the exception leaves;
\*   self.conn closed by disconnect(): commit() raises in the try (with rows
\*     to send, execute_batch does), and rollback() of the handler (line 130)
\*     raises again, connection already closed: the exception leaves;
\*   the batch or the commit fails: rollback, 0 is returned;
\*   else the rows are committed and their number is returned
insert_reviews(conn, stored, reviews_data, bank_mapping, out) ==
    IF conn = "none" THEN DbReturns(0, stored)
    ELSE IF PreparationRaises(reviews_data, bank_mapping) THEN DbRaises(stored)
    ELSE IF conn = "closed" THEN DbRaises(stored)
    ELSE IF out.fails_at \in 1..Len(prepared_data(reviews_data, bank_mapping)) \/ out.commit_raises
    THEN DbReturns(0, stored)
    ELSE DbReturns(Len(prepared_data(reviews_data, bank_mapping)),
                   stored \o prepared_data(reviews_data, bank_mapping))

NoDbCall == [op |-> "none", reviews_data |-> << >>, bank_mapping |-> BankMapping({ }),
             conn |-> "none", stored_before |-> << >>]

NoDbResult == [kind |-> "none", value |-> 0]

DbFiles ==
    { Unreadable } \cup { [readable |-> TRUE, rows |-> rows] : rows \in ReviewLists }

\* __init__ (lines 22-34): no connection; the database is empty
DbInit ==
    /\ db_pc = "idle"
    /\ db_conn = "none"
    /\ db_banks = { }
    /\ db_reviews = << >>
    /\ db_file \in DbFiles
    /\ db_call = NoDbCall
    /\ db_result = NoDbResult

\* a DatabaseManager that is not used
DbIdle ==
    /\ db_pc = "unused"
    /\ db_conn = "none"
    /\ db_banks = { }
    /\ db_reviews = << >>
    /\ db_file = Unreadable
    /\ db_call = NoDbCall
    /\ db_result = NoDbResult

\* connect (lines 36-50): True with a new connection, or False with
\* self.conn as it was
connect ==
    /\ db_pc = "idle"
    /\ \E succeeds \in BOOLEAN :
          /\ db_conn' = IF succeeds THEN "open" ELSE db_conn
          /\ db_result' = [kind |-> "return", value |-> succeeds]
    /\ db_call' = [NoDbCall EXCEPT !.op = "connect", !.conn = db_conn]
    /\ db_pc' = "returned"
    /\ UNCHANGED << db_banks, db_reviews, db_file >>
    /\ UNCHANGED dbOthers

\* disconnect (lines 53-59): the connection is closed, self.conn keeps the object
disconnect ==
    /\ db_pc = "idle"
    /\ db_conn' = IF db_conn = "none" THEN "none" ELSE "closed"
    /\ db_call' = [NoDbCall EXCEPT !.op = "disconnect", !.conn = db_conn]
    /\ db_result' = [kind |-> "return", value |-> 0]
    /\ db_pc' = "returned"
    /\ UNCHANGED << db_banks, db_reviews, db_file >>
    /\ UNCHANGED dbOthers

\* a call of insert_reviews(reviews_data, bank_mapping)
insert_reviews_call ==
    /\ db_pc = "idle"
    /\ Len(db_reviews) <= MaxStored
    /\ \E reviews_data \in ReviewLists, bank_mapping \in BankMappings, out \in ServerOutcomes :
          \E r \in { insert_reviews(db_conn, db_reviews, reviews_data, bank_mapping, out) } :
              /\ db_call' = [op |-> "insert_reviews", reviews_data |-> reviews_data,
                             bank_mapping |-> bank_mapping, conn |-> db_conn,
                             stored_before |-> db_reviews]
              /\ db_result' = [kind |-> r.kind, value |-> r.value]
              /\ db_reviews' = r.stored
    /\ db_pc' = "returned"
    /\ UNCHANGED << db_conn, db_banks, db_file >>
    /\ UNCHANGED dbOthers

\* insert_banks (lines 61-90) in load_data_from_csv on an open connection: the
\* names of banks_info not yet in banks are inserted, or nothing when it fails
BanksAfterInsert(banks, out) == IF out.banks_fail THEN banks ELSE banks \cup banks_info

\* load_data_from_csv (lines 134-173): every exception ends in False (lines
\* 171-173). Without a readable file read_csv raises; with self.conn None,
\* self.cursor is None and line 159 raises; with a closed connection
\* insert_banks raises out of its handler; else the banks are inserted, the
\* mapping is read from banks and insert_reviews is called on the records
load_data_from_csv ==
    /\ db_pc = "idle"
    /\ Len(db_reviews) <= MaxStored
    /\ \E out \in ServerOutcomes :
          IF ~db_file.readable \/ db_conn # "open"
          THEN /\ db_result' = [kind |-> "return", value |-> FALSE]
               /\ db_call' = [NoDbCall EXCEPT !.op = "load_data_from_csv", !.conn = db_conn,
                                              !.stored_before = db_reviews]
               /\ UNCHANGED << db_banks, db_reviews >>
          ELSE \E r \in { insert_reviews(db_conn, db_reviews, db_file.rows,
                                         BankMapping(BanksAfterInsert(db_banks, out)), out) } :
                  /\ db_banks' = BanksAfterInsert(db_banks, out)
                  /\ db_reviews' = r.stored
                  /\ db_result' = [kind |-> "return", value |-> (r.kind = "return" /\ r.value > 0)]
                  /\ db_call' = [op |-> "load_data_from_csv", reviews_data |-> db_file.rows,
                                 bank_mapping |-> BankMapping(BanksAfterInsert(db_banks, out)),
                                 conn |-> db_conn, stored_before |-> db_reviews]
    /\ db_pc' = "returned"
    /\ UNCHANGED << db_conn, db_file >>
    /\ UNCHANGED dbOthers

\* the caller is done with the result and may call again
db_return ==
    /\ db_pc = "returned"
    /\ db_pc' = "idle"
    /\ db_call' = NoDbCall
    /\ db_result' = NoDbResult
    /\ UNCHANGED << db_conn, db_banks, db_reviews, db_file >>
    /\ UNCHANGED dbOthers

DbNext ==
    \/ connect
    \/ disconnect
    \/ insert_reviews_call
    \/ load_data_from_csv
    \/ db_return

\* the stand-alone components, not used
ExtIdle == TpIdle /\ RpIdle /\ FbIdle /\ DbIdle

----------------------------------------------------------------------------
(* The specifications *)

InitInsights == InInit /\ SaIdle /\ ClIdle /\ TaInit /\ ThIdle /\ ParIdle /\ PlIdle /\ ExtIdle

SpecInsights == InitInsights /\ [][InNext]_vars

InitEthics == EthicsInit /\ SaIdle /\ ClIdle /\ TaInit /\ ThIdle /\ ParIdle /\ PlIdle /\ ExtIdle

SpecEthics == InitEthics /\ [][EthicsNext]_vars

InitEndToEnd == EndToEndInit /\ TaInit /\ ClIdle /\ ThIdle /\ ParIdle /\ ExtIdle

SpecEndToEnd == InitEndToEnd /\ [][EndToEndNext]_vars

InitThemeField == ThemeFieldInit /\ SaIdle /\ ClIdle /\ TaInit /\ ThIdle /\ ParIdle /\ PlIdle /\ ExtIdle

SpecThemeField == InitThemeField /\ [][InNext]_vars

InitPreprocessor == TpInit /\ SaIdle /\ ClIdle /\ TaInit /\ ThIdle /\ ParIdle /\ PlIdle /\ InIdle /\ RpIdle /\ FbIdle /\ DbIdle

InitReviews == RpInit /\ SaIdle /\ ClIdle /\ TaInit /\ ThIdle /\ ParIdle /\ PlIdle /\ InIdle /\ TpIdle /\ FbIdle /\ DbIdle

SpecReviews == InitReviews /\ [][RpNext]_vars

InitNgrams == NgInit /\ TaInit /\ SaIdle /\ ClIdle /\ ParIdle /\ PlIdle /\ InIdle /\ ExtIdle

SpecNgrams == InitNgrams /\ [][NgNext]_vars

InitFallback == FbInit /\ SaIdle /\ ClIdle /\ TaInit /\ ThIdle /\ ParIdle /\ PlIdle /\ InIdle /\ TpIdle /\ RpIdle /\ DbIdle

InitDatabase == DbInit /\ SaIdle /\ ClIdle /\ TaInit /\ ThIdle /\ ParIdle /\ PlIdle /\ InIdle /\ TpIdle /\ RpIdle /\ FbIdle

SpecDatabase == InitDatabase /\ [][DbNext]_vars

SpecFallback == InitFallback /\ [][FbNext]_vars

SpecPreprocessor == InitPreprocessor /\ [][TpNext]_vars

InitSentiment == SaInit /\ ClIdle /\ TaInit /\ ThIdle /\ ParIdle /\ PlIdle /\ InIdle /\ ExtIdle

SpecSentiment == InitSentiment /\ [][SaNext]_vars

InitClassify == ClInit /\ SaIdle /\ TaInit /\ ThIdle /\ ParIdle /\ PlIdle /\ InIdle /\ ExtIdle

SpecClassify == InitClassify /\ [][ClNext]_vars

InitTheme == TaInit /\ ThInit /\ SaIdle /\ ClIdle /\ ParIdle /\ PlIdle /\ InIdle /\ ExtIdle

SpecTheme == InitTheme /\ [][ThNext]_vars

InitParallel == TaInit /\ ParInit /\ SaIdle /\ ClIdle /\ ThIdle /\ PlIdle /\ InIdle /\ ExtIdle

SpecParallel == InitParallel /\ [][ParNext]_vars

InitPipeline == PlInit /\ TaInit /\ ClIdle /\ ThIdle /\ ParIdle /\ InIdle /\ ExtIdle

SpecPipeline == InitPipeline /\ [][PlNext]_vars

----------------------------------------------------------------------------
(* Claims about SentimentAnalyzer, checked under SpecSentiment *)

IsBlankStr(v) == IsStr(v) /\ strip(v) = << >>

SelectedAtInit ==
    IF env_model_loads THEN "distilbert"
    ELSE IF env_textblob_imports THEN "textblob" ELSE "none"

\* C1: under each strategy, every sentiment result attached to a record (in
\* the running lists and in the columns of the data frame) has a label in
\* {POSITIVE, NEGATIVE, NEUTRAL} and a score in [0,1] (0..20 twentieths).
C1_LabelAndScoreInRange ==
    /\ Len(sentiments) = Len(scores)
    /\ Len(df_sentiment_label) = Len(df_sentiment_score)
    /\ \A i \in 1..Len(sentiments) :
          sentiments[i] \in Labels /\ scores[i] \in 0..(2 * NEUTRAL_SCORE)
    /\ \A i \in 1..Len(df_sentiment_label) :
          /\ df_sentiment_label[i] \in Labels
          /\ df_sentiment_score[i] \in 0..(2 * NEUTRAL_SCORE)

\* a finished lexicon batch holding a NEGATIVE of polarity -1 (score 1.0) and a POSITIVE
C1_Witness ==
    /\ sa_pc = "done"
    /\ ~model_loaded /\ use_textblob
    /\ Len(df_sentiment_label) = 2
    /\ df_sentiment_label[1] = "NEGATIVE" /\ df_sentiment_score[1] = 2 * NEUTRAL_SCORE
    /\ df_sentiment_label[2] = "POSITIVE"

\* C2: an exception raised while classifying one text is caught, that record
\* gets (NEUTRAL, 0.5) and the batch goes on, under whichever strategy.
C2_PerCallFailureCaught ==
    \A i \in 1..Len(sa_outcome) :
        sa_outcome[i] = "raise" =>
            /\ sa_pc # "raised"
            /\ i <= Len(sentiments)
            /\ sentiments[i] = "NEUTRAL"
            /\ scores[i] = NEUTRAL_SCORE

\* C3: for an empty or whitespace-only text no analyzer is invoked and the
\* result is (NEUTRAL, 0.5), whichever strategy is active.
C3_BlankTextInvokesNothing ==
    \A i \in 1..Len(sa_calls) :
        IsBlankStr(df_text[i]) =>
            /\ sa_calls[i] = "none"
            /\ i <= Len(sentiments)
            /\ sentiments[i] = "NEUTRAL"
            /\ scores[i] = NEUTRAL_SCORE

\* C4: the strategy is the one selected at construction (primary iff the
\* model loaded; lexicon iff it failed to load and the lexicon library is
\* importable; otherwise constant (NEUTRAL, 0.5) without raising), every call
\* of a batch uses it, and no call changes the selection.
C4_StrategyFixedAtInit ==
    /\ model_loaded = env_model_loads
    /\ use_textblob = (~env_model_loads /\ env_textblob_imports)
    /\ \A i \in 1..Len(sa_used) : sa_used[i] = SelectedAtInit
    /\ \A i \in 1..Len(sa_calls) :
          /\ sa_calls[i] = "classifier" => SelectedAtInit = "distilbert"
          /\ sa_calls[i] = "textblob" => SelectedAtInit = "textblob"
    /\ SelectedAtInit = "none" =>
          /\ sa_pc # "raised"
          /\ Len(sentiments) = Len(sa_used)
          /\ \A i \in 1..Len(sentiments) :
                sentiments[i] = "NEUTRAL" /\ scores[i] = NEUTRAL_SCORE

\* a batch that finished under the lexicon strategy, both texts sent to TextBlob
C4_Witness ==
    /\ sa_pc = "done"
    /\ ~env_model_loads /\ env_textblob_imports
    /\ Len(sa_used) = 2
    /\ sa_calls = << "textblob", "textblob" >>
    /\ df_sentiment_label = << "NEUTRAL", "POSITIVE" >>

----------------------------------------------------------------------------
(* Claims about classify_review_themes, checked under SpecClassify *)

TaxonomyKeys == { initialize_theme_keywords[i].theme : i \in 1..Len(initialize_theme_keywords) }

\* the place of a theme in the taxonomy's insertion order
TaxonomyIndex(theme) ==
    CHOOSE i \in 1..Len(initialize_theme_keywords) : initialize_theme_keywords[i].theme = theme

\* the keyword k occurs in t at position i
OccursAt(k, t, i) ==
    /\ i + Len(k) - 1 <= Len(t)
    /\ \A j \in 1..Len(k) : t[i + j - 1] = k[j]

Occurs(k, t) == \E i \in 1..Len(t) : OccursAt(k, t, i)

\* an occurrence delimited on both sides by a space or the text boundary
OccursDelimited(k, t) ==
    \E i \in 1..Len(t) :
        /\ OccursAt(k, t, i)
        /\ i = 1 \/ t[i - 1] = " "
        /\ i + Len(k) - 1 = Len(t) \/ t[i + Len(k)] = " "

\* the reference score of the theme at place n for the lower-cased text t:
\* 2 per keyword with a delimited occurrence, 1 per keyword occurring otherwise
\* (one per keyword that occurs and one more per keyword that occurs delimited)
ReferenceScore(n, t) ==
    LET kws == initialize_theme_keywords[n].keywords
    IN  Cardinality({ j \in 1..Len(kws) : Occurs(kws[j], t) })
        + Cardinality({ j \in 1..Len(kws) : OccursDelimited(kws[j], t) })

\* the themes of the reference rule, the scores of the themes being given
ReferenceSelection(score, max_score, threshold) ==
    { initialize_theme_keywords[n].theme :
        n \in { n \in DOMAIN score : score[n] > 0 /\ score[n] * 10 >= threshold * max_score } }

ReferenceScores(t) ==
    [n \in 1..Len(initialize_theme_keywords) |-> ReferenceScore(n, t)]

\* the largest of the scores
LargestScore(score) ==
    CHOOSE m \in { score[n] : n \in DOMAIN score } : \A n \in DOMAIN score : score[n] <= m

ReferenceThemes(text, threshold) ==
    UNION { ReferenceSelection(score, LargestScore(score), threshold) :
                score \in { ReferenceScores(t) : t \in { lower(text) } } }

NoKeywordOccurs(text) ==
    \A t \in { lower(text) } :
        \A n \in 1..Len(initialize_theme_keywords) :
            \A j \in 1..Len(initialize_theme_keywords[n].keywords) :
                ~Occurs(initialize_theme_keywords[n].keywords[j], t)

\* C5: the themes classify_review_themes returns for a text and a threshold
\* are those of the reference rule (2 per delimited keyword, 1 per keyword
\* occurring only as a substring, each keyword once; a theme is returned iff
\* its score is > 0 and score / max_score >= threshold).
C5_ClassifyIsReferenceRule ==
    (cl_pc = "done" /\ IsStr(cl_text)) =>
        { cl_themes[i] : i \in 1..Len(cl_themes) } = ReferenceThemes(cl_text, cl_threshold)

\* "slow shopping" at threshold 0.5: APP_PERFORMANCE scores 2 (whole word), SECURITY_ACCESS 1
\* ('pin' as a substring), the ratio 0.5 reaches the threshold
C5_Witness ==
    /\ cl_pc = "done"
    /\ cl_text = << "s", "l", "o", "w", " ", "s", "h", "o", "p", "p", "i", "n", "g" >>
    /\ cl_threshold = 5
    /\ cl_themes = << "APP_PERFORMANCE", "SECURITY_ACCESS" >>

\* C7: the list returned holds only keys of the taxonomy, each at most once,
\* in the taxonomy's insertion order.
C7_ThemesInTaxonomyOrder ==
    cl_pc = "done" =>
        /\ \A i \in 1..Len(cl_themes) : cl_themes[i] \in TaxonomyKeys
        /\ \A i, j \in 1..Len(cl_themes) :
              i < j => TaxonomyIndex(cl_themes[i]) < TaxonomyIndex(cl_themes[j])

\* "crashes Login": APP_PERFORMANCE scores 1, SECURITY_ACCESS 2, and the lower score comes first
C7_Witness ==
    /\ cl_pc = "done"
    /\ cl_text = << "c", "r", "a", "s", "h", "e", "s", " ", "L", "o", "g", "i", "n" >>
    /\ cl_themes = << "APP_PERFORMANCE", "SECURITY_ACCESS" >>

\* C8: when no keyword of the taxonomy occurs in the text (also for an empty,
\* a missing and a whitespace-only text) the list returned is empty, for
\* every threshold.
C8_NoKeywordNoTheme ==
    (cl_pc = "done" /\ (~IsStr(cl_text) \/ NoKeywordOccurs(cl_text))) => cl_themes = << >>

\* a text without keyword, classified with a threshold below 0
C8_Witness ==
    /\ cl_pc = "done"
    /\ cl_text = << "o", "k", " ", "o", "k" >>
    /\ cl_threshold < 0
    /\ cl_themes = << >>

----------------------------------------------------------------------------
(* Claims about one ThemeAnalyzer object, checked under SpecTheme and SpecParallel *)

\* C6: whatever operations were called on a ThemeAnalyzer before,
\* theme_keywords is the taxonomy of construction and classify_review_themes
\* returns for a text what a freshly constructed analyzer returns for it.
C6_TaxonomyNeverMutated ==
    /\ theme_keywords = initialize_theme_keywords
    /\ (th_pc = "returned" /\ th_call.op = "classify_review_themes") =>
          th_result = classify_review_themes(initialize_theme_keywords,
                                             th_call.text, th_call.threshold)

\* a classification that found themes, on an analyzer whose vectorizer was fitted before
C6_Witness ==
    /\ th_pc = "returned"
    /\ th_call.op = "classify_review_themes"
    /\ vectorizer.fitted
    /\ th_result = << "APP_PERFORMANCE", "SECURITY_ACCESS" >>

\* C9: when two extract_keywords_tfidf calls run in parallel on one
\* ThemeAnalyzer, each returns the ranking it returns when run alone on its
\* own texts.
C9_ParallelCallsIsolated ==
    \A c \in Callers :
        p_pc[c] = "done" =>
            p_result[c] = extract_keywords_tfidf(NewVectorizer, p_texts[c]).value

\* the texts of the reviews of the bank of an entry of the result
EntryReviews(df, entry) == Column(BankRows(df, entry.bank), "processed_text")

\* C10: in any sequence of calls on one ThemeAnalyzer, the ranking
\* extract_keywords_tfidf returns for a group's texts is the ranking a fresh
\* analyzer returns for them and the one a repeated call returns; the same
\* holds of the keywords analyze_themes_by_bank extracts bank after bank.
C10_SequentialExtractionReproducible ==
    th_pc = "returned" =>
        /\ th_call.op = "extract_keywords_tfidf" =>
              /\ th_result = extract_keywords_tfidf(NewVectorizer, th_call.texts).value
              /\ th_result = extract_keywords_tfidf(vectorizer, th_call.texts).value
        /\ (th_call.op = "analyze_themes_by_bank" /\ ~th_result.raises) =>
              \A i \in 1..Len(th_result.value) :
                  th_result.value[i].top_keywords =
                      Take(extract_keywords_tfidf(NewVectorizer,
                                                  EntryReviews(th_call.df, th_result.value[i])).value, 10)

\* two banks analysed one after the other, each with keywords of its own
C10_Witness ==
    /\ th_pc = "returned"
    /\ th_call.op = "analyze_themes_by_bank"
    /\ ~th_result.raises
    /\ Len(th_result.value) = 2
    /\ th_result.value[1].top_keywords # << >>
    /\ th_result.value[2].top_keywords # << >>
    /\ th_result.value[1].top_keywords # th_result.value[2].top_keywords

\* the texts are all str
AllStr(texts) == \A d \in 1..Len(texts) : IsStr(texts[d])

\* no term of the texts is in at least 2 and in at most 80% of the documents
NoTermWithinDfBounds(texts) ==
    LET terms == [d \in 1..Len(texts) |-> TfidfTerms(texts[d])]
    IN  \A t \in AllTerms(terms) :
            DocFreq(t, terms) < 2 \/ DocFreq(t, terms) * 10 > 8 * Len(texts)

\* a group of fewer than 2 documents, or of an empty vocabulary under the bounds
DegenerateGroup(texts) == AllStr(texts) /\ (Len(texts) < 2 \/ NoTermWithinDfBounds(texts))

\* C11: for a group of fewer than 2 documents, or whose vocabulary is empty
\* under the document-frequency bounds, extract_keywords_tfidf returns the
\* empty ranking (it returns, it does not raise); analyze_themes_by_bank on
\* normalized texts completes with an entry for every bank, and the entry of
\* such a group has no keywords and the n-gram counts of the group's texts.
C11_DegenerateGroupGivesEmptyRanking ==
    th_pc = "returned" =>
        /\ (th_call.op = "extract_keywords_tfidf" /\ DegenerateGroup(th_call.texts)) =>
              th_result = << >>
        /\ (th_call.op = "analyze_themes_by_bank"
              /\ AllStr(Column(th_call.df, "processed_text"))) =>
              /\ ~th_result.raises
              /\ [i \in 1..Len(th_result.value) |-> th_result.value[i].bank]
                    = UniqueBanks(th_call.df)
              /\ \A i \in 1..Len(th_result.value) :
                    DegenerateGroup(EntryReviews(th_call.df, th_result.value[i])) =>
                        /\ th_result.value[i].top_keywords = << >>
                        /\ th_result.value[i].top_bigrams =
                              Take(most_common(NgramList(EntryReviews(th_call.df, th_result.value[i]), 2)), 15)
                        /\ th_result.value[i].top_trigrams =
                              Take(most_common(NgramList(EntryReviews(th_call.df, th_result.value[i]), 3)), 15)

\* a bank of one review, without keywords and with a bigram, followed by a bank with keywords
C11_Witness ==
    /\ th_pc = "returned"
    /\ th_call.op = "analyze_themes_by_bank"
    /\ ~th_result.raises
    /\ Len(th_result.value) = 2
    /\ Len(EntryReviews(th_call.df, th_result.value[1])) = 1
    /\ th_result.value[1].top_keywords = << >>
    /\ th_result.value[1].top_bigrams # << >>
    /\ th_result.value[2].top_keywords # << >>

----------------------------------------------------------------------------
(* Claims about NLPAnalysisPipeline, checked under SpecPipeline *)

\* run_complete_analysis has returned
RunReturned == pl_pc \in { "returned", "main_results" }

\* the normalized text of the i-th row of the input file
NormalizedText(i) == clean_text(pl_file.rows[i].review_cleaned)

\* C12: after run_complete_analysis the annotated output (the dataframe of
\* the results and the main analysis file) has one row per input row, in
\* input order, and the sentiment label and score and the theme list of the
\* i-th row are computed from the normalized text of the i-th input row.
C12_OneRowPerInputRowInOrder ==
    RunReturned =>
        /\ Len(pl_results[1].dataframe) = Len(pl_file.rows)
        /\ Len(pl_written[1].sentiment_themes_analysis) = Len(pl_file.rows)
        /\ \A i \in 1..Len(pl_file.rows) : \A text \in { NormalizedText(i) } :
              /\ pl_results[1].dataframe[i].review_cleaned = pl_file.rows[i].review_cleaned
              /\ pl_results[1].dataframe[i].bank = pl_file.rows[i].bank
              /\ pl_results[1].dataframe[i].processed_text = text
              /\ pl_results[1].dataframe[i].sentiment_input = text
              /\ \E r \in RunClassifyOne(model_loaded, use_textblob, text) :
                    /\ r.label = pl_results[1].dataframe[i].sentiment_label
                    /\ r.score = pl_results[1].dataframe[i].sentiment_score
              /\ pl_results[1].dataframe[i].themes =
                    classify_review_themes(initialize_theme_keywords, text, 1)
              /\ pl_written[1].sentiment_themes_analysis[i].review_id = i - 1
              /\ pl_written[1].sentiment_themes_analysis[i].review_text = pl_file.rows[i].review_cleaned
              /\ pl_written[1].sentiment_themes_analysis[i].bank = pl_file.rows[i].bank
              /\ pl_written[1].sentiment_themes_analysis[i].sentiment_label =
                    pl_results[1].dataframe[i].sentiment_label
              /\ pl_written[1].sentiment_themes_analysis[i].sentiment_score =
                    pl_results[1].dataframe[i].sentiment_score
              /\ pl_written[1].sentiment_themes_analysis[i].identified_themes =
                    identified_themes(pl_results[1].dataframe[i].themes)

\* a run over "Slow App!", whose inference raised, and "good login", found POSITIVE
C12_Witness ==
    /\ RunReturned
    /\ Len(pl_file.rows) = 2
    /\ pl_file.rows[1].review_cleaned = << "S", "l", "o", "w", " ", "A", "p", "p", "!" >>
    /\ pl_results[1].dataframe[1].sentiment_outcome = "raise"
    /\ pl_results[1].dataframe[1].sentiment_label = "NEUTRAL"
    /\ pl_results[1].dataframe[2].sentiment_label = "POSITIVE"
    /\ pl_results[1].dataframe[2].themes = << "SECURITY_ACCESS" >>

\* C13: in a run that returned, a record whose sentiment inference raised has
\* NEUTRAL sentiment and an empty theme list, and every record is annotated.
C13_FailedRecordNeutralAndNoThemes ==
    RunReturned =>
        /\ Len(pl_results[1].dataframe) = Len(pl_file.rows)
        /\ \A i \in 1..Len(pl_results[1].dataframe) :
              pl_results[1].dataframe[i].sentiment_outcome = "raise" =>
                  /\ pl_results[1].dataframe[i].sentiment_label = "NEUTRAL"
                  /\ pl_results[1].dataframe[i].sentiment_score = NEUTRAL_SCORE
                  /\ pl_results[1].dataframe[i].themes = << >>

\* C14: when the input file cannot be read, run_complete_analysis raises (and
\* main returns None); no record is preprocessed, classified or analysed,
\* the vectorizer is never fitted, self.results stays empty and no file is
\* written.
C14_LoadErrorIsFatal ==
    ~pl_file.readable =>
        /\ pl_pc \in { "start", "raised", "main_none" }
        /\ pl_df = << >>
        /\ pl_trace = << >>
        /\ pl_theme_analysis = << >>
        /\ vectorizer = NewVectorizer
        /\ pl_results = << >>
        /\ pl_written = << >>

\* the error of load_data has left run_complete_analysis
C14_Witness == ~pl_file.readable /\ pl_pc = "raised"

\* the places of the history where a stage of `stages` worked on row i
PlacesOf(stages, i) ==
    { k \in 1..Len(pl_trace) : pl_trace[k].stage \in stages /\ pl_trace[k].row = i }

\* the places of the history where the keyword extractor was invoked
Extractions == { k \in 1..Len(pl_trace) : pl_trace[k].stage = "extract_keywords" }

\* C15: in a run the records are normalized, then classified for sentiment,
\* then for themes; the keyword extractor is invoked once per group, on the
\* normalized texts of the group, and only after every record has its
\* sentiment and its themes (the classification inside
\* analyze_themes_by_bank counting as well as the column of line 61).
C15_ExtractionAfterAnnotation ==
    /\ \A j, k \in 1..Len(pl_trace) :
          /\ (pl_trace[j].stage = "normalize" /\ pl_trace[k].stage = "sentiment") => j < k
          /\ (pl_trace[j].stage = "sentiment"
                /\ pl_trace[k].stage \in { "bank_themes", "themes" }) => j < k
    /\ \A j, k \in Extractions : pl_trace[j].bank = pl_trace[k].bank => j = k
    /\ \A k \in Extractions :
          /\ pl_trace[k].texts =
                [n \in 1..Len(RowsOfBank(pl_file.rows, pl_trace[k].bank)) |->
                    NormalizedText(RowsOfBank(pl_file.rows, pl_trace[k].bank)[n])]
          /\ \A i \in 1..Len(pl_file.rows) :
                /\ \E j \in PlacesOf({ "sentiment" }, i) : j < k
                /\ \E j \in PlacesOf({ "bank_themes", "themes" }, i) : j < k

----------------------------------------------------------------------------
(* Claims about InsightsAnalyzer, checked under SpecInsights *)

\* the report was returned
Reported == in_pc = "reported"

\* the records of a group with a label whose written theme list holds the theme of that text
RecordsWith(bank, labels, text) ==
    { i \in 1..Len(in_df) :
        /\ in_df[i].bank = bank
        /\ in_df[i].sentiment_label \in labels
        /\ \E n \in 1..Len(in_df[i].written_themes) : ThemeText[in_df[i].written_themes[n]] = text }

\* the counts of a dict given as its items are the numbers of records of the group with the label
CountsOnly(bank, items, label) ==
    \A k \in 1..Len(items) : items[k][2] = Cardinality(RecordsWith(bank, { label }, items[k][1]))

\* C16: for every group, the count reported for a pain-point theme is the
\* number of the group's NEGATIVE records whose theme list contains it, the
\* count reported for a driver theme the number of its POSITIVE records
\* whose theme list contains it; a NEUTRAL record contributes to neither
C16_PainPointsNegativeDriversPositive ==
    Reported =>
        \A bank \in ValuesOf(in_df, "bank") :
            /\ CountsOnly(bank, in_report.pain_points[bank].top, "NEGATIVE")
            /\ CountsOnly(bank, in_report.drivers[bank].top, "POSITIVE")
            /\ in_report.pain_points[bank].review_count = Len(LabelRows(BankRows(in_df, bank), "NEGATIVE"))
            /\ in_report.drivers[bank].review_count = Len(LabelRows(BankRows(in_df, bank), "POSITIVE"))

\* a group whose pain points count a theme that a record of another label of the group also has
C16_Witness ==
    /\ Reported
    /\ \E bank \in ValuesOf(in_df, "bank") :
          \E k \in 1..Len(in_report.pain_points[bank].top) :
              /\ RecordsWith(bank, { "NEUTRAL", "POSITIVE" }, in_report.pain_points[bank].top[k][1]) # { }
              /\ in_report.pain_points[bank].top[k][2] >= 1

\* the entries of one group in a report
GroupEntries(report, bank) ==
    [sentiment_analysis |-> report.sentiment_analysis[bank],
     theme_analysis |-> report.theme_analysis[bank],
     pain_points |-> report.pain_points[bank],
     drivers |-> report.drivers[bank],
     recommendations |-> report.recommendations[bank]]

\* the analysis files whose records of the group are those of self.df
AgreeingFiles(bank) ==
    { f \in AnalysisFiles : f.readable /\ BankRows(f.rows, bank) = BankRows(in_df, bank) }

\* C17: no cross-group leakage: for any two record sets that agree on the
\* records of a group, every per-group entry of the report for that group
\* (sentiment statistics, theme analysis, pain points, drivers,
\* recommendations) is the same, whatever the records of the other groups
C17_NoCrossGroupLeakage ==
    Reported =>
        \A bank \in ValuesOf(in_df, "bank") :
            \A f \in AgreeingFiles(bank) :
                GroupEntries(insights_report(f.rows), bank) = GroupEntries(in_report, bank)

\* a report on two groups, one of them with records of each label in another
\* file that agrees on the first group
C17_Witness ==
    /\ Reported
    /\ Cardinality(ValuesOf(in_df, "bank")) = 2
    /\ \E bank \in ValuesOf(in_df, "bank") :
          \E f \in AgreeingFiles(bank) :
              /\ f.rows # in_df
              /\ Cardinality(ValuesOf(f.rows, "bank")) = 2
              /\ in_report.pain_points[bank].top # << >>

----------------------------------------------------------------------------
(* Claims about the sentiment distribution of the pipeline's report, checked under SpecPipeline *)

\* the count the reported distribution gives a label in a group, 0 for a
\* label that no record of the group has (its cell is missing or NaN)
ReportedCount(label, bank) ==
    IF /\ label \in DOMAIN pl_results[1].sentiment_report.sentiment_by_bank
       /\ \E i \in 1..Len(pl_df) : pl_df[i].bank = bank /\ pl_df[i].sentiment_label = label
    THEN pl_results[1].sentiment_report.sentiment_by_bank[label][bank]
    ELSE 0

\* C18: for every group, the per-label counts POSITIVE + NEGATIVE + NEUTRAL of
\* the group's reported sentiment distribution add up to the number of
\* records of the group, a label absent from the group counting as 0
C18_LabelCountsSumToGroupSize ==
    RunReturned =>
        \A bank \in ValuesOf(pl_file.rows, "bank") :
            ReportedCount("POSITIVE", bank) + ReportedCount("NEGATIVE", bank) + ReportedCount("NEUTRAL", bank)
                = Len(BankRows(pl_file.rows, bank))

\* a report on two groups, one with a NEGATIVE record only, the other with a POSITIVE record only
C18_Witness ==
    /\ RunReturned
    /\ Cardinality(ValuesOf(pl_file.rows, "bank")) = 2
    /\ \E a, b \in ValuesOf(pl_file.rows, "bank") :
          /\ ReportedCount("NEGATIVE", a) = 1 /\ ReportedCount("POSITIVE", a) = 0
          /\ ReportedCount("POSITIVE", b) = 1 /\ ReportedCount("NEGATIVE", b) = 0

----------------------------------------------------------------------------
(* Claims about the order of the records, checked under SpecInsights *)

\* the records in another order
Permuted(df, p) == [i \in 1..Len(df) |-> df[p[i]]]

\* the group-level results of a report, every dict as the set of its items
\* and the recommendation list as the set of its entries
GroupResults(report, bank) ==
    [sentiment_analysis |-> report.sentiment_analysis[bank],
     total_theme_mentions |-> report.theme_analysis[bank].total_theme_mentions,
     unique_themes |-> report.theme_analysis[bank].unique_themes,
     top_themes |-> SeqToSet(report.theme_analysis[bank].top_themes),
     top_pain_points |-> SeqToSet(report.pain_points[bank].top),
     top_drivers |-> SeqToSet(report.drivers[bank].top),
     recommendations |-> SeqToSet(report.recommendations[bank])]

\* C19: the results do not depend on the order of the records: for every
\* permutation of the input records every group-level result (theme
\* distribution, top themes, top-3 pain points and drivers, recommendations)
\* is the same, also when themes tie in count at the top-k cut-off
C19_ResultsIndependentOfRecordOrder ==
    Reported =>
        \A p \in Permutations(1..Len(in_df)) :
            \A bank \in ValuesOf(in_df, "bank") :
                GroupResults(insights_report(Permuted(in_df, p)), bank) = GroupResults(in_report, bank)

----------------------------------------------------------------------------
(* Claims about generate_recommendations, checked under SpecInsights *)

\* the places of a recommendation list with a priority and an area
EntriesOf(recs, priority, area) ==
    { k \in 1..Len(recs) : recs[k].priority = priority /\ recs[k].area = area }

\* the items of a dict, given in order, with the key `text`
ItemsOf(items, text) == { k \in 1..Len(items) : items[k][1] = text }

\* a theme among the items yields exactly one entry of the priority and area,
\* whose rationale cites the count of the theme; a theme not among them none
YieldsOne(recs, items, text, priority, area) ==
    /\ Cardinality(EntriesOf(recs, priority, area)) = Cardinality(ItemsOf(items, text))
    /\ Cardinality(ItemsOf(items, text)) <= 1
    /\ \A k \in EntriesOf(recs, priority, area) :
          \A n \in ItemsOf(items, text) : recs[k].rationale[1] = items[n][2]

\* C20: generate_recommendations is a fixed mapping: per group, a top
\* pain-point theme TRANSACTIONS, APP_PERFORMANCE or RELIABILITY_ISSUES yields
\* exactly one HIGH entry whose rationale cites the theme's pain-point count,
\* a top driver theme APP_PERFORMANCE exactly one MEDIUM entry, every other
\* theme no entry (and no error), so a group with no mapped theme an empty list
C20_RecommendationsFixedMapping ==
    /\ in_file.readable => in_pc \in { "start", "loaded", "reported" }
    /\ Reported =>
        \A bank \in ValuesOf(in_df, "bank") :
            /\ YieldsOne(in_report.recommendations[bank], in_report.pain_points[bank].top,
                         ThemeText.TRANSACTIONS, "HIGH", "Transactions")
            /\ YieldsOne(in_report.recommendations[bank], in_report.pain_points[bank].top,
                         ThemeText.APP_PERFORMANCE, "HIGH", "App Performance")
            /\ YieldsOne(in_report.recommendations[bank], in_report.pain_points[bank].top,
                         ThemeText.RELIABILITY_ISSUES, "HIGH", "Reliability")
            /\ YieldsOne(in_report.recommendations[bank], in_report.drivers[bank].top,
                         ThemeText.APP_PERFORMANCE, "MEDIUM", "Performance Maintenance")
            /\ Len(in_report.recommendations[bank])
                 = Cardinality(EntriesOf(in_report.recommendations[bank], "HIGH", "Transactions"))
                 + Cardinality(EntriesOf(in_report.recommendations[bank], "HIGH", "App Performance"))
                 + Cardinality(EntriesOf(in_report.recommendations[bank], "HIGH", "Reliability"))
                 + Cardinality(EntriesOf(in_report.recommendations[bank], "MEDIUM", "Performance Maintenance"))

\* a group whose top pain points are USER_INTERFACE, which is not mapped, and
\* APP_PERFORMANCE: its one recommendation is the HIGH entry citing the count 1
C20_Witness ==
    /\ Reported
    /\ \E bank \in ValuesOf(in_df, "bank") :
          /\ ItemsOf(in_report.pain_points[bank].top, ThemeText.USER_INTERFACE) # { }
          /\ Len(in_report.recommendations[bank]) = 1
          /\ in_report.recommendations[bank][1].area = "App Performance"
          /\ in_report.recommendations[bank][1].rationale[1] = 1

----------------------------------------------------------------------------
(* Claims about identify_ethical_considerations, checked under SpecEthics *)

\* the list returned holds the consideration
Flags(text) == \E k \in 1..Len(in_report) : in_report[k] = text

\* the number of records with a value in a column
Having(c, x) == Cardinality({ i \in 1..Len(in_df) : in_df[i][c] = x })

\* the sum of the squares of (number of groups * size of the group - number of records)
SquaredDeviations ==
    SumOver([bank \in ValuesOf(in_df, "bank") |->
                (Cardinality(ValuesOf(in_df, "bank")) * Having("bank", bank) - Len(in_df)) ^ 2],
            ValuesOf(in_df, "bank"))

\* C21: negative bias is flagged iff the share of NEGATIVE records is
\* strictly greater than 70%, polarization iff the share of 1-star or of
\* 5-star ratings is strictly greater than 40%, uneven sampling iff the
\* coefficient of variation (standard deviation, with n - 1 in the
\* denominator, over mean) of the per-group review counts is strictly greater
\* than 0.3, which it is not for a single group
C21_EthicsThresholdsStrict ==
    in_pc = "considered" =>
        /\ Flags("High negative bias") <=> 10 * Having("sentiment_label", "NEGATIVE") > 7 * Len(in_df)
        /\ Flags("Polarized ratings") <=>
              \/ 10 * Having("rating", 1) > 4 * Len(in_df)
              \/ 10 * Having("rating", 5) > 4 * Len(in_df)
        /\ Flags("Uneven sample sizes") <=>
              /\ Cardinality(ValuesOf(in_df, "bank")) > 1
              /\ 100 * SquaredDeviations
                    > 9 * (Cardinality(ValuesOf(in_df, "bank")) - 1) * Len(in_df) ^ 2

\* ten records of a single group, exactly 70% of them NEGATIVE and exactly
\* 40% of them with 1 star: nothing is flagged
C21_Witness ==
    /\ in_pc = "considered"
    /\ Len(in_df) = 10
    /\ Having("sentiment_label", "NEGATIVE") = 7
    /\ Having("rating", 1) = 4
    /\ Having("rating", 5) = 0
    /\ Cardinality(ValuesOf(in_df, "bank")) = 1
    /\ in_report = << >>

----------------------------------------------------------------------------
(* Claims about a pipeline run followed by the insights analysis, checked under SpecEndToEnd *)

\* the insights report on the file written by the run over the three
\* reviews, which the sentiment model labelled POSITIVE, NEGATIVE, NEGATIVE
ThreeReviewsReported ==
    /\ Reported
    /\ pl_file.rows = EndToEndRows
    /\ Column(in_df, "sentiment_label") = << "POSITIVE", "NEGATIVE", "NEGATIVE" >>

\* C22: end to end, for the three bank-A reviews "Great transfer speed!"
\* (rating 5), "Login keeps failing" (rating 1) and "Crashes during
\* transfer" (rating 2) labelled POSITIVE, NEGATIVE, NEGATIVE, bank A has 1
\* POSITIVE, 0 NEUTRAL and 2 NEGATIVE records, its pain points include
\* SECURITY_ACCESS, TRANSACTIONS and APP_PERFORMANCE, and its recommendations
\* hold an entry whose area is Transactions or App Performance
C22_EndToEndThreeReviews ==
    ThreeReviewsReported =>
        /\ ReportedCount("POSITIVE", "A") = 1
        /\ ReportedCount("NEUTRAL", "A") = 0
        /\ ReportedCount("NEGATIVE", "A") = 2
        /\ in_report.sentiment_analysis["A"].total_reviews = 3
        /\ in_report.sentiment_analysis["A"].positive_pct = << 1, 3 >>
        /\ in_report.pain_points["A"].review_count = 2
        /\ ItemsOf(in_report.pain_points["A"].top, ThemeText.SECURITY_ACCESS) # { }
        /\ ItemsOf(in_report.pain_points["A"].top, ThemeText.TRANSACTIONS) # { }
        /\ ItemsOf(in_report.pain_points["A"].top, ThemeText.APP_PERFORMANCE) # { }
        /\ \E k \in 1..Len(in_report.recommendations["A"]) :
              in_report.recommendations["A"][k].area \in { "Transactions", "App Performance" }

\* the report on the three reviews, with the recommendations of bank A: the
\* two HIGH entries and the MEDIUM one
C22_Witness ==
    /\ ThreeReviewsReported
    /\ pl_pc = "main_results"
    /\ [k \in 1..Len(in_report.recommendations["A"]) |-> in_report.recommendations["A"][k].area]
         \in { << "App Performance", "Transactions", "Performance Maintenance" >>,
               << "Transactions", "App Performance", "Performance Maintenance" >> }

----------------------------------------------------------------------------
(* Claims about the field identified_themes, checked under SpecThemeField *)

\* the tags of a theme list, as texts
TagTexts(x) == [n \in 1..Len(x) |-> ThemeText[x[n]]]

\* C23: the output field identified_themes is the literal "No themes" iff
\* the record's theme list is empty and otherwise the theme tags joined by
\* ", ", and the parsing of the field by the insights analyzer (split on
\* ',', strip, drop "No themes") recovers exactly the record's theme list,
\* for every possible output of the theme classifier
C23_ThemeFieldRoundTrip ==
    Reported =>
        \A i \in 1..Len(in_df) :
            /\ in_df[i].identified_themes = NoThemes <=> in_df[i].written_themes = << >>
            /\ in_df[i].written_themes # << >> =>
                  in_df[i].identified_themes = JoinWith(<< ",", " " >>, TagTexts(in_df[i].written_themes))
            /\ theme_list(in_df[i].identified_themes) = TagTexts(in_df[i].written_themes)
            /\ in_report.theme_analysis[in_df[i].bank].total_theme_mentions = Len(in_df[i].written_themes)
            /\ in_report.pain_points[in_df[i].bank].top
                 = [n \in 1..Min(3, Len(in_df[i].written_themes)) |->
                       << ThemeText[in_df[i].written_themes[n]], 1 >>]

\* the report on a record with three themes, the last two of them parsed
\* from pieces that begin with a blank
C23_Witness ==
    /\ Reported
    /\ in_df[1].written_themes = << "APP_PERFORMANCE", "SECURITY_ACCESS", "TRANSACTIONS" >>
    /\ in_report.theme_analysis["A"].unique_themes = 3

----------------------------------------------------------------------------
(* Claims about TextPreprocessor, checked under SpecPreprocessor *)

\* clean_text has returned
Cleaned == tp_pc \in { "cleaned", "tokenized" }

\* the characters of string.punctuation (but the quotes and the backslash)
Punctuation ==
    { "!", "#", "$", "%", "&", "(", ")", "*", "+", ",", "-", ".", "/", ":", ";",
      "<", "=", ">", "?", "@", "[", "]", "^", "_", "{", "|", "}", "~" }

\* no character of s is in S
Without(s, S) == \A i \in 1..Len(s) : s[i] \notin S

\* s holds 'http' followed by a character that is no whitespace
HoldsUrl(s) ==
    \E i \in 1..Len(s) :
        /\ StandsAt(<< "h", "t", "t", "p" >>, s, i)
        /\ i + 4 <= Len(s)
        /\ s[i + 4] \notin Whitespace

\* s neither begins nor ends with whitespace and has no two whitespace characters in a row
Trimmed(s) ==
    /\ s # << >> => s[1] \notin Whitespace /\ s[Len(s)] \notin Whitespace
    /\ \A i \in 1..(Len(s) - 1) : ~(s[i] \in Whitespace /\ s[i + 1] \in Whitespace)

\* C24: for every input clean_text returns a string with no upper-case
\* letter, no digit, no punctuation character, no URL ('http' followed by a
\* character that is no space), no @-mention and no #-tag, no leading or
\* trailing whitespace and no two whitespace characters in a row; a missing
\* (NaN) input yields the empty string
C24_CleanTextOutputIsClean ==
    Cleaned =>
        /\ Without(tp_processed, SeqToSet(UpperCase))
        /\ Without(tp_processed, Digits)
        /\ Without(tp_processed, Punctuation)
        /\ ~HoldsUrl(tp_processed)
        /\ Trimmed(tp_processed)
        /\ tp_text \in { NaN, None } => tp_processed = << >>

\* C28: clean_text is idempotent, clean_text(clean_text(t)) = clean_text(t)
\* for every text t, hence the tokens that preprocess_dataframe derives by
\* cleaning processed_text again are the tokens of processed_text itself
C28_CleanTextIdempotent ==
    /\ Cleaned => clean_text(tp_processed) = tp_processed
    /\ tp_pc = "tokenized" => tp_tokens = SelectSeq(split(tp_processed), LAMBDA w : Len(w) > 2)

----------------------------------------------------------------------------
(* C25 *)

\* the rating of a row is one of 1, 2, 3, 4, 5
RatingInRange(row) == ~row.rating.nan /\ row.rating.value \in 1..5

\* C25: once process() has validated the data, every record it retains has a
\* rating from 1 to 5, whatever the ratings of the raw file were, and the file
\* it saves, which is written only at the end of process(), holds only such
\* records: the records with a rating outside the range are gone before
C25_RetainedRatingsInRange ==
    /\ rp_pc \in {"validated", "done"} => \A i \in 1..Len(rp_df) : RatingInRange(rp_df[i])
    /\ rp_saved.written =>
        /\ rp_pc = "done"
        /\ rp_saved.rows = rp_df
        /\ \A i \in 1..Len(rp_saved.rows) : RatingInRange(rp_saved.rows[i])

\* process() completed on a raw file of a record rated 5 and a record rated 6:
\* the first is saved, the second is not
C25_Witness ==
    /\ rp_pc = "done"
    /\ Len(rp_file.rows) = 2
    /\ rp_file.rows[1].rating = Number(5)
    /\ rp_file.rows[2].rating = Number(6)
    /\ Len(rp_saved.rows) = 1
    /\ rp_saved.rows[1].review = rp_file.rows[1].review
    /\ rp_stats.final_count = 1

----------------------------------------------------------------------------
(* C26 *)

\* C26: the lexicon fallback maps a polarity p of [-1, 1] so: p > 0.1 gives
\* POSITIVE with (p + 1) / 2, p < -0.1 gives NEGATIVE with (1 - p) / 2, and
\* every other p, 0.1 and -0.1 themselves included, gives NEUTRAL with 0.5
\* (p in tenths, the score in twentieths: (p + 10) / 20 is (p/10 + 1) / 2)
C26_FallbackPolarityMapping ==
    fb_pc = "returned" =>
        /\ ~fb_out.raises
        /\ fb_out.polarity > 1 => fb_result = << "POSITIVE", fb_out.polarity + 10 >>
        /\ fb_out.polarity < -1 => fb_result = << "NEGATIVE", 10 - fb_out.polarity >>
        /\ fb_out.polarity \in -1..1 => fb_result = << "NEUTRAL", 10 >>

\* the fallback has returned on the polarities 0.1, -0.1, 0.2 and -1.0
C26_Witness ==
    /\ fb_pc = "returned"
    /\ fb_out.polarity \in {1, -1, 2, -10}
    /\ fb_result[1] = (IF fb_out.polarity = 2 THEN "POSITIVE"
                       ELSE IF fb_out.polarity = -10 THEN "NEGATIVE" ELSE "NEUTRAL")

----------------------------------------------------------------------------
(* C27 *)

\* the places of document d where a window of n words reads the phrase g
Windows(texts, d, n, g) ==
    { i \in 1..(Len(split(texts[d])) - n + 1) : Join(SubSeq(split(texts[d]), i, i + n - 1)) = g }

\* in how many windows of n words, over the documents one by one, g is read
WindowCount(texts, n, g) ==
    SumOver([d \in 1..Len(texts) |-> Cardinality(Windows(texts, d, n, g))], 1..Len(texts))

\* the phrases of n words made of the words of the documents
Phrases(texts, n) ==
    { Join(ws) : ws \in [1..n -> UNION { SeqToSet(split(texts[d])) : d \in 1..Len(texts) }] }

\* the phrases read in some window
Counted(texts, n) == { g \in Phrases(texts, n) : WindowCount(texts, n, g) > 0 }

\* C27: extract_ngrams(texts, n) counts the n-grams read by sliding a window
\* of n words over the words of each document on its own: every entry is a
\* phrase with the number of windows reading it, no phrase is listed twice, a
\* document of L words gives max(0, L - n + 1) windows, the entries are in
\* descending order of count, there are at most top_n of them and no phrase
\* left out has a higher count than a listed one
C27_NgramsPerDocumentWindows ==
    (th_pc = "returned" /\ th_call.op = "extract_ngrams" /\ ~th_result.raises) =>
        /\ \A k \in 1..Len(th_result.value) :
              /\ th_result.value[k][1] \in Counted(th_call.texts, th_call.n)
              /\ th_result.value[k][2] = WindowCount(th_call.texts, th_call.n, th_result.value[k][1])
              /\ \A j \in 1..(k - 1) :
                    /\ th_result.value[j][1] # th_result.value[k][1]
                    /\ th_result.value[j][2] >= th_result.value[k][2]
        /\ Len(th_result.value) = Min(th_call.top_n, Cardinality(Counted(th_call.texts, th_call.n)))
        /\ \A g \in Counted(th_call.texts, th_call.n) :
              (\A k \in 1..Len(th_result.value) : th_result.value[k][1] # g) =>
                  \A k \in 1..Len(th_result.value) :
                      th_result.value[k][2] >= WindowCount(th_call.texts, th_call.n, g)
        /\ Len(th_result.value) < th_call.top_n =>
              SumOver([k \in 1..Len(th_result.value) |-> th_result.value[k][2]], 1..Len(th_result.value))
              = SumOver([d \in 1..Len(th_call.texts) |->
                            Max(0, Len(split(th_call.texts[d])) - th_call.n + 1)], 1..Len(th_call.texts))

\* the bigrams of "a b a b" and "a a a" with top_n = 2: "a b" twice and "a a"
\* twice are listed, "b a", read once, is cut off, and no window reads the
\* "b a" that ends the first document and begins the second
C27_Witness ==
    /\ th_pc = "returned"
    /\ th_call.op = "extract_ngrams"
    /\ th_call.n = 2
    /\ th_call.top_n = 2
    /\ th_call.texts = << << "a", " ", "b", " ", "a", " ", "b" >>, << "a", " ", "a", " ", "a" >> >>
    /\ th_result.value = << << << "a", " ", "b" >>, 2 >>, << << "a", " ", "a" >>, 2 >> >>

----------------------------------------------------------------------------
(* C29 *)

\* the priorities of a recommendation list, in its order
Priorities(recs) == [k \in 1..Len(recs) |-> recs[k].priority]

\* the themes with a recommendation for a pain point, and the area of each
MappedPainAreas ==
    { << ThemeText.TRANSACTIONS, "Transactions" >>,
      << ThemeText.APP_PERFORMANCE, "App Performance" >>,
      << ThemeText.RELIABILITY_ISSUES, "Reliability" >> }

\* the bounds of the recommendation list `recs` of a group whose top pain
\* points are `pains` and whose top drivers are `drivers`
BoundedList(bank, recs, pains, drivers) ==
    /\ Len(pains) <= 3
    /\ Len(drivers) <= 3
    /\ Len(recs) <= 4
    /\ Count(Priorities(recs), "HIGH") <= 3
    /\ Count(Priorities(recs), "MEDIUM") <= 1
    /\ Count(Priorities(recs), "HIGH") + Count(Priorities(recs), "MEDIUM") = Len(recs)
    /\ \A j, k \in 1..Len(recs) :
          /\ j # k => recs[j].area # recs[k].area
          /\ (recs[j].priority = "MEDIUM" /\ recs[k].priority = "HIGH") => k < j
    /\ \A m \in MappedPainAreas :
          (RecordsWith(bank, { "NEGATIVE" }, m[1]) # { } /\ ItemsOf(pains, m[1]) = { }) =>
              \A k \in 1..Len(recs) : recs[k].area # m[2]

\* C29: for every group the recommendation list has at most 4 entries, at
\* most 3 HIGH ones, from the at most 3 top pain points, and at most 1 MEDIUM
\* one, from the at most 3 top drivers; no two entries have the same area;
\* every HIGH entry comes before every MEDIUM entry; and a mapped theme that
\* is a pain point of the group without being among its top 3 has no entry
C29_RecommendationListBounded ==
    Reported =>
        \A bank \in ValuesOf(in_df, "bank") :
            BoundedList(bank, in_report.recommendations[bank],
                        in_report.pain_points[bank].top, in_report.drivers[bank].top)

\* a group with four pain-point themes at one record each, RELIABILITY_ISSUES
\* the fourth: it gets the entries of Transactions and App Performance, none of
\* Reliability
C29_Witness ==
    /\ Reported
    /\ \E bank \in ValuesOf(in_df, "bank") :
          /\ RecordsWith(bank, { "NEGATIVE" }, ThemeText.RELIABILITY_ISSUES) # { }
          /\ ItemsOf(in_report.pain_points[bank].top, ThemeText.RELIABILITY_ISSUES) = { }
          /\ Priorities(in_report.recommendations[bank]) = << "HIGH", "HIGH" >>

\* a group with the three mapped pain points and the driver APP_PERFORMANCE
FullList ==
    /\ Reported
    /\ \E bank \in ValuesOf(in_df, "bank") :
          Priorities(in_report.recommendations[bank]) = << "HIGH", "HIGH", "HIGH", "MEDIUM" >>

----------------------------------------------------------------------------
(* C30 *)

\* the reviews of the call whose bank is in bank_mapping
KnownBankReviews == SelectSeq(db_call.reviews_data, LAMBDA r : r.bank \in DOMAIN db_call.bank_mapping)

\* the rows the call added to the table reviews
AddedRows == SubSeq(db_reviews, Len(db_call.stored_before) + 1, Len(db_reviews))

\* C30: insert_reviews is all-or-nothing: after any call, either one row per
\* review whose bank is in bank_mapping was committed, the reviews of unknown
\* banks skipped, and the number of these rows is returned, or an error
\* occurred, no row of the call is stored and 0 is returned; and a call
\* without a connection returns 0 and leaves the database as it was
C30_InsertReviewsAllOrNothing ==
    (db_pc = "returned" /\ db_call.op = "insert_reviews") =>
        /\ SubSeq(db_reviews, 1, Len(db_call.stored_before)) = db_call.stored_before
        /\ db_result.kind = "return"
        /\ \/ /\ db_result.value = Len(KnownBankReviews)
              /\ Len(AddedRows) = Len(KnownBankReviews)
              /\ \A k \in 1..Len(AddedRows) :
                    /\ AddedRows[k].bank_id = db_call.bank_mapping[KnownBankReviews[k].bank]
                    /\ AddedRows[k].rating = KnownBankReviews[k].rating
           \/ /\ db_result.value = 0
              /\ AddedRows = << >>
        /\ db_call.conn = "none" => (db_result.value = 0 /\ AddedRows = << >>)

====
